---- MODULE Spec2Model ----
(***************************************************************************)
(* PuppyPeer core: the node actor (core/src/app.rs) with its command       *)
(* queue, waiter table and inbound request handlers, and the shared state  *)
(* with its folder ACL (core/src/state.rs).                                *)
(*                                                                         *)
(* Paths are sequences of components, the root being the empty sequence.  *)
(* A submitted path may hold the component "..".  The filesystem is a      *)
(* function from the paths that exist to directory, file and symbolic     *)
(* link nodes.                                                             *)
(***************************************************************************)
EXTENDS Integers, Sequences, FiniteSets, TLC

VARIABLES
    actor,             \* the spawned actor task: "running", "stopped", "panicked"
    cur,               \* the handler the actor is suspended in, or idle at select
    rx,                \* App.rx: the commands queued on the command channel
    pending_requests,  \* App.pending_requests: request id -> waiter
    next_request_id,   \* the id the next send_request returns
    oneshot,           \* per facade call: what its one-shot receiver has seen
    shutdown_tx,       \* PuppyPeer.shutdown_tx: "armed" or "sent"
    inbound,           \* per inbound request: the number of send_response calls on its channel
    state,             \* the shared State behind the mutex
    fs,                \* the host filesystem
    hist,              \* history: commands sent, handled, terminal events handled
    fn_in,             \* argument of the function or request under study
    fn_out             \* its result

vars == << actor, cur, rx, pending_requests, next_request_id, oneshot,
           shutdown_tx, inbound, state, fs, hist, fn_in, fn_out >>

actor_vars == << actor, cur, rx, pending_requests, next_request_id, oneshot,
                 shutdown_tx, inbound, hist >>

\* Option: None and Some(x), the value of Some(x) being v[1]
None == <<>>
Some(x) == << x >>
\* an empty slot of a record-valued variable or field
Nil == [nil |-> TRUE]

(***************************************************************************)
(* Bounds of the model.                                                    *)
(***************************************************************************)
MaxLinks == 2          \* symbolic links followed in one path resolution
MaxShared == 1         \* rules in State.shared_folders (pure ACL check)
MaxRelRules == 1       \* rules of one Relationship (pure ACL check)
MaxShares == 1         \* share_read_only_folder / share_read_write_folder calls
MaxOffset == 0         \* largest offset of a WriteFile request
MaxFsReqs == 1         \* inbound file requests in one run of SpecFs
Now == 2               \* the clock when has_fs_access is called
MaxCalls == 2          \* commands sent on the command channel
MaxInbound == 1        \* inbound Request events
MaxEvents == 2         \* Response and OutboundFailure events
U64_MAX == 15          \* the largest u64 of the model: offsets and lengths are
                       \* words of this width, standing for u64::MAX = 2^64 - 1
MaxFileLen == 6        \* length of the file SpecIo starts with
MaxShort == 1          \* bytes one short read call yields in SpecIo
MaxIoReqs == 2         \* inbound file requests in one run of SpecIo
MaxEntries == 3        \* entries of the directory SpecDir lists
MaxShareCalls == 2     \* share calls in one run of SpecShare
MaxKeys == 3           \* distinct keys generate_ed25519 can draw in SpecKey
MaxStarts == 2         \* node starts in one run of SpecKey
MaxRegisters == 1      \* commands handled in one run of SpecReplace
MaxWorkers == 2        \* threads calling add and done in SpecWg
MaxRounds == 1         \* add/done pairs each of them runs
MaxConns == 3          \* connection ids the swarm hands out
MaxConnCmds == 1       \* commands handled between the connection events
MaxTokens == 1         \* tokens the AuthManager issues
MaxAuthReqs == 6       \* control requests handled in one run of SpecAuth
MaxWaiters == 2        \* waiters in the table SpecWaiter starts with
MaxReqs == 3           \* inbound requests in one run of SpecReq

(***************************************************************************)
(* Access flags, state.rs.                                                 *)
(***************************************************************************)
FLAG_READ == 1
FLAG_WRITE == 2
FLAG_EXECUTE == 4
FLAG_SEARCH == 8
\* p2p.rs: 4 MiB per transfer chunk, with the lengths of SpecIo read in MiB
MAX_FILE_CHUNK == 4
\* p2p.rs: one hour of credential session, with the clock of SpecAuth in hours
DEFAULT_SESSION_TTL == 1
\* the clock of SpecAuth runs for the life of one credential session
AuthMaxTime == DEFAULT_SESSION_TTL

\* flags & bit != 0, for a single-bit mask
HasBit(flags, bit) == (flags \div bit) % 2 = 1

\* a | b for access bytes
BitOr(a, b) ==
    LET bits == {FLAG_READ, FLAG_WRITE, FLAG_EXECUTE, FLAG_SEARCH}
        on == {x \in bits : HasBit(a, x) \/ HasBit(b, x)}
    IN  (IF FLAG_READ \in on THEN FLAG_READ ELSE 0)
      + (IF FLAG_WRITE \in on THEN FLAG_WRITE ELSE 0)
      + (IF FLAG_EXECUTE \in on THEN FLAG_EXECUTE ELSE 0)
      + (IF FLAG_SEARCH \in on THEN FLAG_SEARCH ELSE 0)

can_read(flags) == HasBit(flags, FLAG_READ)
can_write(flags) == HasBit(flags, FLAG_WRITE)
can_execute(flags) == HasBit(flags, FLAG_EXECUTE)
can_search(flags) == HasBit(flags, FLAG_SEARCH)

\* FolderRule::allows without its test of FLAG_WRITE
allows_no_write_test(flags, access) ==
    IF HasBit(access, FLAG_READ) /\ ~can_read(flags) THEN FALSE
    ELSE IF HasBit(access, FLAG_EXECUTE) /\ ~can_execute(flags) THEN FALSE
    ELSE IF HasBit(access, FLAG_SEARCH) /\ ~can_search(flags) THEN FALSE
    ELSE TRUE

\* FolderRule::allows
allows(flags, access) ==
    IF HasBit(access, FLAG_READ) /\ ~can_read(flags) THEN FALSE
    ELSE IF HasBit(access, FLAG_WRITE) /\ ~can_write(flags) THEN FALSE
    ELSE IF HasBit(access, FLAG_EXECUTE) /\ ~can_execute(flags) THEN FALSE
    ELSE IF HasBit(access, FLAG_SEARCH) /\ ~can_search(flags) THEN FALSE
    ELSE TRUE

\* Path::starts_with: a prefix by whole components
starts_with(path, base) ==
    /\ Len(base) <= Len(path)
    /\ SubSeq(path, 1, Len(base)) = base

FolderRule(path, flags) == [path |-> path, flags |-> flags]
OwnerRule == [kind |-> "Owner"]
FolderRuleOf(r) == [kind |-> "Folder", folder |-> r]

\* a relationship rule matched by the Rule::Folder arm of has_fs_access
folder_rule_grants(rule, path, access) ==
    /\ rule.kind = "Folder"
    /\ starts_with(path, rule.folder.path)
    /\ allows(rule.folder.flags, access)

\* the loop of has_fs_access over shared_folders
shared_folder_grants(st, path, access) ==
    \E i \in DOMAIN st.shared_folders :
        /\ starts_with(path, st.shared_folders[i].path)
        /\ allows(st.shared_folders[i].flags, access)

\* the loop of has_fs_access over relationships
relationship_grants(st, src, path, access) ==
    \E i \in DOMAIN st.relationships :
        LET rel == st.relationships[i] IN
        /\ rel.src = src \/ rel.target = src
        /\ \E j \in DOMAIN rel.rules :
              \/ rel.rules[j].rule.kind = "Owner"
              \/ folder_rule_grants(rel.rules[j].rule, path, access)

\* State::has_fs_access
has_fs_access(st, src, path, access) ==
    IF src = st.me THEN TRUE
    ELSE IF shared_folder_grants(st, path, access) THEN TRUE
    ELSE IF relationship_grants(st, src, path, access) THEN TRUE
    ELSE FALSE

\* an add that takes the rule out again when it is already stored
add_shared_folder_toggle(st, rule) ==
    IF \E i \in DOMAIN st.shared_folders : st.shared_folders[i] = rule
    THEN [st EXCEPT !.shared_folders = SelectSeq(@, LAMBDA r : r # rule)]
    ELSE [st EXCEPT !.shared_folders = Append(@, rule)]

\* State::add_shared_folder
add_shared_folder(st, rule) ==
    [st EXCEPT !.shared_folders = Append(@, rule)]

\* a create_user that pushes without looking for the name
create_user_always_push(st, username, password) ==
    [ok |-> TRUE,
     st |-> [st EXCEPT !.users = Append(@, [name |-> username, passw |-> password])]]

\* State::create_user
create_user(st, username, password) ==
    IF \E i \in DOMAIN st.users : st.users[i].name = username
    THEN [ok |-> FALSE, st |-> st]
    ELSE [ok |-> TRUE,
          st |-> [st EXCEPT !.users = Append(@, [name |-> username, passw |-> password])]]

(***************************************************************************)
(* The filesystem and the path functions the handlers call.                *)
(***************************************************************************)
Dir == [type |-> "dir"]
\* a regular file; short = k > 0: one read call on it yields at most k
\* bytes, as the read contract allows; short = 0: reads are never short
ShortFile(data, k) == [type |-> "file", data |-> data, short |-> k]
File(data) == ShortFile(data, 0)
Link(target) == [type |-> "link", target |-> target]

\* Path::parent: None for the root
parent(p) == IF p = <<>> THEN None ELSE Some(SubSeq(p, 1, Len(p) - 1))

\* Path::file_name: None for the root and for a path ending in ".."
file_name(p) ==
    IF p = <<>> \/ p[Len(p)] = ".." THEN None ELSE Some(p[Len(p)])

\* Path::join with a single normal component
join(p, name) == Append(p, name)

\* Resolution of the components rest from the resolved directory at, as the
\* system does it: ".." steps up, a symbolic link is replaced by its target.
\*   st = "ok":      every component exists, path is the resolved node
\*   st = "missing": all but the last component exist, path is where the
\*                   last one would be created
\*   st = "err":     anything else (ENOENT, ENOTDIR, ELOOP)
RECURSIVE Walk(_, _, _, _)
Walk(f, at, rest, depth) ==
    IF rest = <<>> THEN [st |-> "ok", path |-> at]
    ELSE IF f[at].type # "dir" THEN [st |-> "err", path |-> at]
    ELSE IF Head(rest) = ".."
         THEN Walk(f, IF at = <<>> THEN at ELSE SubSeq(at, 1, Len(at) - 1),
                   Tail(rest), depth)
    ELSE LET nxt == Append(at, Head(rest)) IN
         IF nxt \notin DOMAIN f
         THEN IF Tail(rest) = <<>> THEN [st |-> "missing", path |-> nxt]
              ELSE [st |-> "err", path |-> nxt]
         ELSE IF f[nxt].type = "link"
         THEN IF depth = 0 THEN [st |-> "err", path |-> nxt]
              ELSE Walk(f, <<>>, f[nxt].target \o Tail(rest), depth - 1)
         ELSE Walk(f, nxt, Tail(rest), depth)

\* fs::canonicalize
canonicalize(f, p) ==
    LET w == Walk(f, <<>>, p, MaxLinks) IN
    IF w.st = "ok" THEN [ok |-> TRUE, path |-> w.path] ELSE [ok |-> FALSE]

\* fs::metadata: follows symbolic links, fails when the target is missing
metadata(f, p) == Walk(f, <<>>, p, MaxLinks).st = "ok"

\* the directory a path names once resolved, for fs::read_dir
children(f, dir) ==
    {p \in DOMAIN f : Len(p) = Len(dir) + 1 /\ SubSeq(p, 1, Len(dir)) = dir}

\* str::to_lowercase on the names of the model
to_lowercase(name) ==
    CASE name = "A" -> "a"
      [] name = "B" -> "b"
      [] OTHER -> name

\* the lower-cased names in byte order
LowerNames == << "a", "b", "l", "new", "pub", "s", "secret" >>
NameRank(n) == CHOOSE i \in DOMAIN LowerNames : LowerNames[i] = n

\* a comparator that orders by lower-cased name alone
entry_less_by_name(a, b) ==
    NameRank(to_lowercase(a.name)) < NameRank(to_lowercase(b.name))

\* the comparator of entries.sort_by in collect_dir_entries, as "a before b"
entry_less(a, b) ==
    IF a.is_dir /\ ~b.is_dir THEN TRUE
    ELSE IF ~a.is_dir /\ b.is_dir THEN FALSE
    ELSE NameRank(to_lowercase(a.name)) < NameRank(to_lowercase(b.name))

RECURSIVE SetToSeq(_)
SetToSeq(S) ==
    IF S = {} THEN <<>>
    ELSE LET x == CHOOSE x \in S : TRUE IN <<x>> \o SetToSeq(S \ {x})

\* App::collect_dir_entries
collect_dir_entries(f, path) ==
    LET w == Walk(f, <<>>, path, MaxLinks) IN
    IF w.st # "ok" \/ f[w.path].type # "dir" THEN [ok |-> FALSE]
    ELSE LET entries ==
                 {[name |-> p[Len(p)],
                   is_dir |-> f[p].type = "dir",
                   size |-> IF f[p].type = "file" THEN Len(f[p].data) ELSE 0]
                  : p \in children(f, w.path)}
         IN [ok |-> TRUE, entries |-> SortSeq(SetToSeq(entries), entry_less)]

\* u64::checked_add: None when the sum does not fit the word
checked_add(a, b) ==
    IF a + b > U64_MAX THEN [some |-> FALSE, v |-> 0] ELSE [some |-> TRUE, v |-> a + b]

\* i64::MAX of the model's word: File::set_len fails on a longer length
I64_MAX == U64_MAX \div 2

\* the most one read of a tokio fs::File hands over: the size of the buffer
\* its blocking read fills (2 MiB, with the lengths of SpecIo read in MiB)
DEFAULT_MAX_BUF_SIZE == 2

\* a read call that fills the caller's buffer whatever its size
read_whole_buffer(node, buf_len, left) == IF buf_len < left THEN buf_len ELSE left

\* reader.read(&mut buffer) on a file with left bytes before its end: the
\* number of bytes it puts in a buffer of buf_len bytes. The BufReader
\* passes a read this large straight to the file, which returns at most its
\* own buffer's worth, and fewer when the file's read comes back short.
read(node, buf_len, left) ==
    LET want == IF buf_len < left THEN buf_len ELSE left
        capped == IF want > DEFAULT_MAX_BUF_SIZE THEN DEFAULT_MAX_BUF_SIZE ELSE want
    IN IF node.short > 0 /\ node.short < capped THEN node.short ELSE capped

\* read_file with eof taken from the bytes asked for, not the bytes read
read_file_eof_by_request(f, path, offset, length) ==
    LET w == Walk(f, <<>>, path, MaxLinks) IN
    IF w.st # "ok" THEN [ok |-> FALSE, msg |-> "open failed"]
    ELSE IF f[w.path].type = "dir" THEN [ok |-> FALSE, msg |-> "path is a directory"]
    ELSE LET data == f[w.path].data
             file_len == Len(data)
         IN IF offset >= file_len
            THEN [ok |-> TRUE,
                  chunk |-> [offset |-> offset, data |-> <<>>, eof |-> TRUE]]
            ELSE LET remaining == file_len - offset
                     to_read == IF length = None THEN remaining
                                ELSE IF length[1] < remaining THEN length[1] ELSE remaining
                     n == read(f[w.path], to_read, remaining)
                 IN [ok |-> TRUE,
                     chunk |-> [offset |-> offset,
                                data |-> SubSeq(data, offset + 1, offset + n),
                                eof |-> (offset + to_read >= file_len)]]

\* read_file of app.rs
read_file(f, path, offset, length) ==
    LET w == Walk(f, <<>>, path, MaxLinks) IN
    IF w.st # "ok" THEN [ok |-> FALSE, msg |-> "open failed"]
    ELSE IF f[w.path].type = "dir" THEN [ok |-> FALSE, msg |-> "path is a directory"]
    ELSE LET data == f[w.path].data
             file_len == Len(data)
         IN IF offset >= file_len
            THEN [ok |-> TRUE,
                  chunk |-> [offset |-> offset, data |-> <<>>, eof |-> TRUE]]
            ELSE LET remaining == file_len - offset
                     to_read == IF length = None THEN remaining
                                ELSE IF length[1] < remaining THEN length[1] ELSE remaining
                     n == read(f[w.path], to_read, remaining)
                     buffer == SubSeq(data, offset + 1, offset + n)
                 IN [ok |-> TRUE,
                     chunk |-> [offset |-> offset, data |-> buffer,
                                eof |-> (offset + n >= file_len)]]

\* the file cut at the end of the written range, as with truncate(true)
overwrite_truncates(old, offset, data) ==
    [i \in 1..(offset + Len(data)) |->
        IF i > offset THEN data[i - offset]
        ELSE IF i <= Len(old) THEN old[i] ELSE 0]

\* bytes [offset, offset + |data|) of old replaced by data, old zero-extended
overwrite(old, offset, data) ==
    LET new_len == IF offset + Len(data) > Len(old) THEN offset + Len(data) ELSE Len(old)
    IN [i \in 1..new_len |->
           IF i > offset /\ i <= offset + Len(data) THEN data[i - offset]
           ELSE IF i <= Len(old) THEN old[i] ELSE 0]

\* write_file of app.rs: the file is opened, and so created, first
write_file(f, path, offset, data) ==
    LET w == Walk(f, <<>>, path, MaxLinks) IN
    IF w.st = "err" \/ (w.st = "ok" /\ f[w.path].type # "file")
    THEN [ok |-> FALSE, msg |-> "open failed", fs |-> f]
    ELSE LET opened == IF w.st = "missing"
                       THEN [p \in DOMAIN f \cup {w.path} |->
                                IF p = w.path THEN File(<<>>) ELSE f[p]]
                       ELSE f
             required_len == checked_add(offset, Len(data))
         IN IF ~required_len.some
            THEN [ok |-> FALSE, msg |-> "length overflow", fs |-> opened]
            ELSE IF required_len.v > Len(opened[w.path].data) /\ required_len.v > I64_MAX
            THEN [ok |-> FALSE, msg |-> "set_len failed", fs |-> opened]
            ELSE [ok |-> TRUE,
                  ack |-> [bytes_written |-> Len(data)],
                  fs |-> [opened EXCEPT ![w.path].data = overwrite(@, offset, data)]]

(***************************************************************************)
(* Inbound request handlers, app.rs.                                       *)
(***************************************************************************)
ErrorRes(msg) == [tag |-> "Error", msg |-> msg]

\* the handler returned Ok(res)
Replied(res, st, f) ==
    [kind |-> "Ok", res |-> res, st |-> st, fs |-> f, acl_path |-> None]
\* the handler returned Err(_) through a ? operator
Failed(st, f) ==
    [kind |-> "Err", res |-> Nil, st |-> st, fs |-> f, acl_path |-> None]
\* the handler panicked
Panicked(st, f) ==
    [kind |-> "Panic", res |-> Nil, st |-> st, fs |-> f, acl_path |-> None]
\* the outcome of a handler that handed path to can_access on its way
Checked(path, outcome) == [outcome EXCEPT !.acl_path = Some(path)]

\* Mutex::lock returns Err: a thread panicked while it held the guard
poisoned(st) == "poisoned" \in DOMAIN st /\ st.poisoned

\* App::can_access
can_access(st, peer, path, access) ==
    IF poisoned(st) THEN FALSE ELSE has_fs_access(st, peer, path, access)

\* the access asked of a reading request and of a writing request
READ_ACCESS == BitOr(FLAG_READ, FLAG_SEARCH)
WRITE_ACCESS == BitOr(BitOr(FLAG_WRITE, FLAG_READ), FLAG_SEARCH)

\* PeerReq::ListDir
handle_list_dir(st, f, peer, req) ==
    LET canonical == canonicalize(f, req.path) IN
    IF ~canonical.ok THEN Replied(ErrorRes("Failed to access directory"), st, f)
    ELSE Checked(canonical.path,
         IF ~can_access(st, peer, canonical.path, READ_ACCESS)
         THEN Replied(ErrorRes("Access denied"), st, f)
         ELSE LET entries == collect_dir_entries(f, canonical.path) IN
              IF ~entries.ok THEN Failed(st, f)
              ELSE Replied([tag |-> "DirEntries", entries |-> entries.entries], st, f))

\* PeerReq::StatFile
handle_stat_file(st, f, peer, req) ==
    LET canonical == canonicalize(f, req.path) IN
    IF ~canonical.ok THEN Replied(ErrorRes("Failed to access file"), st, f)
    ELSE Checked(canonical.path,
         IF ~can_access(st, peer, canonical.path, READ_ACCESS)
         THEN Replied(ErrorRes("Access denied"), st, f)
         ELSE LET name == file_name(canonical.path)
                  node == f[canonical.path]
              IN Replied([tag |-> "FileStat",
                          entry |-> [name |-> IF name = None THEN "" ELSE name[1],
                                     is_dir |-> node.type = "dir",
                                     size |-> IF node.type = "file"
                                              THEN Len(node.data) ELSE 0]],
                         st, f))

\* PeerReq::ReadFile checking and opening the path as submitted
handle_read_file_submitted(st, f, peer, req) ==
    IF ~canonicalize(f, req.path).ok
    THEN Replied(ErrorRes("Failed to access file"), st, f)
    ELSE Checked(req.path,
         IF ~can_access(st, peer, req.path, READ_ACCESS)
         THEN Replied(ErrorRes("Access denied"), st, f)
         ELSE LET r == read_file(f, req.path, req.offset, req.length) IN
              IF ~r.ok THEN Failed(st, f)
              ELSE Replied([tag |-> "FileChunk", chunk |-> r.chunk], st, f))

\* PeerReq::ReadFile
handle_read_file(st, f, peer, req) ==
    LET canonical == canonicalize(f, req.path) IN
    IF ~canonical.ok THEN Replied(ErrorRes("Failed to access file"), st, f)
    ELSE Checked(canonical.path,
         IF ~can_access(st, peer, canonical.path, READ_ACCESS)
         THEN Replied(ErrorRes("Access denied"), st, f)
         ELSE LET r == read_file(f, canonical.path, req.offset, req.length) IN
              IF ~r.ok THEN Failed(st, f)
              ELSE Replied([tag |-> "FileChunk", chunk |-> r.chunk], st, f))

\* the path a WriteFile checks and opens: canonical(path) when the path
\* resolves, else canonical(parent) joined with the final component
write_target(f, path) ==
    IF metadata(f, path)
    THEN LET c == canonicalize(f, path) IN
         IF c.ok THEN [ok |-> TRUE, path |-> c.path]
         ELSE [ok |-> FALSE, msg |-> "Failed to access file"]
    ELSE IF parent(path) = None THEN [ok |-> FALSE, msg |-> "Invalid path"]
    ELSE LET canonical_parent == canonicalize(f, parent(path)[1]) IN
         IF ~canonical_parent.ok
         THEN [ok |-> FALSE, msg |-> "Failed to access parent directory"]
         ELSE IF file_name(path) = None
         THEN [ok |-> FALSE, msg |-> "Invalid file name"]
         ELSE [ok |-> TRUE, path |-> join(canonical_parent.path, file_name(path)[1])]

\* PeerReq::WriteFile gated like a reading request
handle_write_file_read_gated(st, f, peer, req) ==
    LET canonical == write_target(f, req.path) IN
    IF ~canonical.ok THEN Replied(ErrorRes(canonical.msg), st, f)
    ELSE Checked(canonical.path,
         IF ~can_access(st, peer, canonical.path, READ_ACCESS)
         THEN Replied(ErrorRes("Access denied"), st, f)
         ELSE LET w == write_file(f, canonical.path, req.offset, req.data) IN
              IF ~w.ok THEN Failed(st, w.fs)
              ELSE Replied([tag |-> "WriteAck", ack |-> w.ack], st, w.fs))

\* PeerReq::WriteFile
handle_write_file(st, f, peer, req) ==
    LET canonical == write_target(f, req.path) IN
    IF ~canonical.ok THEN Replied(ErrorRes(canonical.msg), st, f)
    ELSE Checked(canonical.path,
         IF ~can_access(st, peer, canonical.path, WRITE_ACCESS)
         THEN Replied(ErrorRes("Access denied"), st, f)
         ELSE LET w == write_file(f, canonical.path, req.offset, req.data) IN
              IF ~w.ok THEN Failed(st, w.fs)
              ELSE Replied([tag |-> "WriteAck", ack |-> w.ack], st, w.fs))

\* PeerReq::CreateUser
handle_create_user(st, f, peer, req) ==
    LET r == create_user(st, req.username, req.password) IN
    IF poisoned(st) THEN Panicked(st, f)
    ELSE IF ~r.ok THEN Failed(st, f)
    ELSE Replied([tag |-> "UserCreated", username |-> req.username], r.st, f)

\* PeerReq::CreateToken
handle_create_token(st, f, peer, req) ==
    IF poisoned(st) THEN Panicked(st, f)
    ELSE IF ~(\E i \in DOMAIN st.users : st.users[i].name = req.username)
    THEN Replied(ErrorRes("User does not exist"), st, f)
    ELSE Replied([tag |-> "TokenIssued", username |-> req.username], st, f)

\* PeerReq::ListPermissions
handle_list_permissions(st, f, peer, req) ==
    IF poisoned(st) THEN Replied(ErrorRes("State unavailable"), st, f)
    ELSE Replied([tag |-> "Permissions"], st, f)

\* App::handle_puppy_peer_req
handle_puppy_peer_req(st, f, peer, req) ==
    CASE req.tag = "ListDir" -> handle_list_dir(st, f, peer, req)
      [] req.tag = "StatFile" -> handle_stat_file(st, f, peer, req)
      [] req.tag = "ReadFile" -> handle_read_file(st, f, peer, req)
      [] req.tag = "WriteFile" -> handle_write_file(st, f, peer, req)
      [] req.tag = "ListCpus" -> Replied([tag |-> "Cpus"], st, f)
      [] req.tag = "ListDisks" -> Replied(ErrorRes("ListDisks not implemented"), st, f)
      [] req.tag = "ListInterfaces" -> Replied([tag |-> "Interfaces"], st, f)
      [] req.tag = "ListPermissions" -> handle_list_permissions(st, f, peer, req)
      [] req.tag = "Authenticate" -> Panicked(st, f)
      [] req.tag = "CreateUser" -> handle_create_user(st, f, peer, req)
      [] req.tag = "CreateToken" -> handle_create_token(st, f, peer, req)
      [] req.tag = "GrantAccess" -> Replied(ErrorRes("GrantAccess not implemented"), st, f)
      [] req.tag = "ListUsers" -> Replied(ErrorRes("ListUsers not implemented"), st, f)
      [] req.tag = "ListTokens" -> Replied(ErrorRes("ListTokens not implemented"), st, f)
      [] req.tag = "RevokeToken" -> Replied(ErrorRes("RevokeToken not implemented"), st, f)
      [] req.tag = "RevokeUser" -> Replied(ErrorRes("RevokeUser not implemented"), st, f)

\* the response the Request arm of handle_agent_event sends for an outcome
response_for(outcome) ==
    IF outcome.kind = "Ok" THEN outcome.res ELSE ErrorRes("Internal error")

\* PuppyPeer::register_shared_folder after std::fs::canonicalize
share_folder(st, f, path, flags) ==
    LET canonical == canonicalize(f, path) IN
    IF ~canonical.ok THEN st
    ELSE add_shared_folder(st, FolderRule(canonical.path, flags))

\* PuppyPeer::share_read_only_folder
share_read_only_folder(st, f, path) == share_folder(st, f, path, READ_ACCESS)

\* PuppyPeer::share_read_write_folder
share_read_write_folder(st, f, path) == share_folder(st, f, path, WRITE_ACCESS)

(***************************************************************************)
(* Values the specifications draw from.                                    *)
(***************************************************************************)
Me == "me"
RemotePeers == {"p1"}
Peers == {Me, "p1", "p2"}

\* State::default, with me set by App::new
DefaultState ==
    [me |-> Me, shared_folders |-> <<>>, relationships |-> <<>>, users |-> <<>>]

\* all sequences over S of length at most n
SeqsUpTo(S, n) == UNION {[1..k -> S] : k \in 0..n}

\* the actor right after PuppyPeer::new, untouched
ActorIdle ==
    /\ actor = "running"
    /\ cur = Nil
    /\ rx = <<>>
    /\ pending_requests = <<>>
    /\ next_request_id = 1
    /\ oneshot = <<>>
    /\ shutdown_tx = "armed"
    /\ inbound = <<>>

(***************************************************************************)
(* SpecAcl: State::has_fs_access as a function of its arguments.           *)
(***************************************************************************)
AclPaths == {<< "pub" >>, << "pub", "a" >>, << "secret" >>}
AclFolderRules ==
    {FolderRule(p, fl) : p \in {<< "pub" >>, << "pub", "a" >>},
                         fl \in {READ_ACCESS, WRITE_ACCESS}}
AclRelRules ==
    [rule : {OwnerRule} \cup {FolderRuleOf(r) : r \in AclFolderRules},
     expires_at : {None, Some(Now - 1), Some(Now + 1)}]
AclRelationships ==
    [src : {Me, "p1"}, target : {"p1", "p2"}, rules : SeqsUpTo(AclRelRules, MaxRelRules)]
AclStates ==
    [me : {Me},
     shared_folders : SeqsUpTo(AclFolderRules, MaxShared),
     relationships : {<<>>} \cup {<< r >> : r \in AclRelationships},
     users : {<<>>}]

InitAcl ==
    /\ ActorIdle
    /\ hist = Nil
    /\ state = DefaultState
    /\ fs = <<>>
    /\ fn_in \in [st : AclStates, src : Peers, path : AclPaths,
                  access : {READ_ACCESS, WRITE_ACCESS}, now : {Now}]
    /\ fn_out = Nil

\* has_fs_access is called with the arguments drawn
AclCheck ==
    /\ fn_out = Nil
    /\ fn_out' = [granted |-> has_fs_access(fn_in.st, fn_in.src, fn_in.path, fn_in.access)]
    /\ UNCHANGED << actor_vars, state, fs, fn_in >>

NextAcl == AclCheck

SpecAcl == InitAcl /\ [][NextAcl]_vars

(***************************************************************************)
(* SpecKey: the node identity over restarts, p2p.rs load_or_generate_keypair *)
(* as called by App::new.                                                  *)
(***************************************************************************)
\* Keypair::to_protobuf_encoding: a type tag, then the key material
to_protobuf_encoding(key) == << 8, key >>

\* Keypair::from_protobuf_encoding: fails on bytes that are no encoded key
from_protobuf_encoding(bytes) ==
    IF Len(bytes) = 2 /\ bytes[1] = 8 THEN [ok |-> TRUE, key |-> bytes[2]]
    ELSE [ok |-> FALSE]

\* Keypair::public
public(key) == [ed25519 |-> key]

\* std::fs::write: creates or truncates the file; fails when a directory on
\* the way is missing or the path names a directory
fs_write(f, path, bytes) ==
    LET w == Walk(f, <<>>, path, MaxLinks) IN
    IF w.st = "err" \/ (w.st = "ok" /\ f[w.path].type # "file") THEN [ok |-> FALSE, fs |-> f]
    ELSE [ok |-> TRUE,
          fs |-> [q \in DOMAIN f \cup {w.path} |-> IF q = w.path THEN File(bytes) ELSE f[q]]]

\* load_or_generate_keypair(path), generated being the key generate_ed25519
\* draws
load_or_generate_keypair(f, path, generated) ==
    IF metadata(f, path)
    THEN LET node == f[canonicalize(f, path).path] IN
         IF node.type # "file" THEN [ok |-> FALSE, fs |-> f]
         ELSE LET key == from_protobuf_encoding(node.data) IN
              IF ~key.ok THEN [ok |-> FALSE, fs |-> f]
              ELSE [ok |-> TRUE, key |-> key.key, fs |-> f]
    ELSE LET written == fs_write(f, path, to_protobuf_encoding(generated)) IN
         IF ~written.ok THEN [ok |-> FALSE, fs |-> f]
         ELSE [ok |-> TRUE, key |-> generated, fs |-> written.fs]

Keys == 1..MaxKeys
KeyPaths == {<< "etc", "key" >>, << "nope", "key" >>}
KeyFsSet ==
    LET base == (<<>> :> Dir) @@ (<< "etc" >> :> Dir) IN
    {base, (<< "etc", "key" >> :> File(<< 0 >>)) @@ base}
    \cup {(<< "etc", "key" >> :> File(to_protobuf_encoding(k))) @@ base : k \in Keys}

InitKey ==
    /\ ActorIdle
    /\ fs \in KeyFsSet
    /\ state = DefaultState
    /\ hist = <<>>
    /\ fn_in = Nil
    /\ fn_out = Nil

\* App::new with KEYPAIR = path: the identity is the loaded or generated
\* key, or an ephemeral key when load_or_generate_keypair fails; hist keeps
\* one row for each start
AppNew(path, generated, ephemeral) ==
    \E loaded \in {load_or_generate_keypair(fs, path, generated)} :
    /\ Len(hist) < MaxStarts
    /\ fs' = loaded.fs
    /\ fn_in' = [path |-> path, existed |-> metadata(fs, path)]
    /\ fn_out' = [loaded |-> IF loaded.ok THEN Some(public(loaded.key)) ELSE None,
                  peer_id |-> public(IF loaded.ok THEN loaded.key ELSE ephemeral)]
    /\ hist' = Append(hist, [call |-> fn_in', result |-> fn_out'])
    /\ UNCHANGED << actor, cur, rx, pending_requests, next_request_id, oneshot,
                    shutdown_tx, inbound, state >>

NextKey == \E path \in KeyPaths, generated \in Keys, ephemeral \in Keys :
              AppNew(path, generated, ephemeral)

SpecKey == InitKey /\ [][NextKey]_vars

(***************************************************************************)
(* SpecWg: wait_group.rs. Worker threads run matched add(1) / done() pairs *)
(* while one task awaits WaitGroup::wait(). Each atomic operation of add,  *)
(* done and poll is one step, so that the threads interleave between them. *)
(* state is the State of wait_group.rs (counter, waker); cur holds the     *)
(* position of every thread and of the waiting task.                       *)
(***************************************************************************)
Workers == 1..MaxWorkers

\* AtomicWaker::take: the registered waker is removed, nobody is woken
waker_take(st) == [st EXCEPT !.waker = None]

WgThread(pc, prev, rounds) == [pc |-> pc, prev |-> prev, rounds |-> rounds]

\* WaitGroup::new, the worker threads spawned, the waiting task not polled yet
InitWg ==
    /\ actor = "running"
    /\ rx = <<>>
    /\ pending_requests = <<>>
    /\ next_request_id = 1
    /\ oneshot = <<>>
    /\ shutdown_tx = "armed"
    /\ inbound = <<>>
    /\ fs = <<>>
    /\ hist = Nil
    /\ fn_in = Nil
    /\ fn_out = Nil
    /\ state = [counter |-> 0, waker |-> None]
    /\ cur = [workers |-> [w \in Workers |-> WgThread("idle", 0, 0)],
              waiter |-> [pc |-> "start", woken |-> FALSE]]

WgUnchanged ==
    UNCHANGED << actor, rx, pending_requests, next_request_id, oneshot,
                 shutdown_tx, inbound, fs, hist, fn_in, fn_out >>

\* add(1): counter.fetch_add(1)
AddFetch(w) ==
    /\ cur.workers[w].pc = "idle"
    /\ cur.workers[w].rounds < MaxRounds
    /\ state' = [state EXCEPT !.counter = @ + 1]
    /\ cur' = [cur EXCEPT !.workers[w] = WgThread("add", state.counter, @.rounds)]
    /\ WgUnchanged

\* add(1): if prev == 0 { waker.take() }
AddTake(w) ==
    /\ cur.workers[w].pc = "add"
    /\ state' = IF cur.workers[w].prev = 0 THEN waker_take(state) ELSE state
    /\ cur' = [cur EXCEPT !.workers[w] = WgThread("working", 0, @.rounds)]
    /\ WgUnchanged

\* done(): counter.fetch_sub(1)
DoneFetch(w) ==
    /\ cur.workers[w].pc = "working"
    /\ state' = [state EXCEPT !.counter = @ - 1]
    /\ cur' = [cur EXCEPT !.workers[w] = WgThread("done", state.counter, @.rounds)]
    /\ WgUnchanged

\* done(): if prev == 1 { waker.wake() }: a registered waker is taken and its
\* task is notified
DoneWake(w) ==
    /\ cur.workers[w].pc = "done"
    /\ state' = IF cur.workers[w].prev = 1 THEN waker_take(state) ELSE state
    /\ cur' = [cur EXCEPT !.workers[w] = WgThread("idle", 0, @.rounds + 1),
                          !.waiter.woken = IF cur.workers[w].prev = 1 /\ state.waker # None
                                           THEN TRUE ELSE @]
    /\ WgUnchanged

\* WaitFuture::poll: the first load of the counter
PollLoad ==
    /\ cur.waiter.pc = "start"
    /\ cur' = [cur EXCEPT !.waiter.pc = IF state.counter = 0 THEN "ready" ELSE "register"]
    /\ UNCHANGED state
    /\ WgUnchanged

\* WaitFuture::poll: waker.register(cx.waker())
PollRegister ==
    /\ cur.waiter.pc = "register"
    /\ state' = [state EXCEPT !.waker = Some("waiter")]
    /\ cur' = [cur EXCEPT !.waiter.pc = "recheck"]
    /\ WgUnchanged

\* WaitFuture::poll: the second load; Pending parks the task
PollRecheck ==
    /\ cur.waiter.pc = "recheck"
    /\ cur' = [cur EXCEPT !.waiter.pc = IF state.counter = 0 THEN "ready" ELSE "parked"]
    /\ UNCHANGED state
    /\ WgUnchanged

\* the executor polls the task again once its waker was woken
Repoll ==
    /\ cur.waiter.pc = "parked"
    /\ cur.waiter.woken
    /\ cur' = [cur EXCEPT !.waiter = [pc |-> "start", woken |-> FALSE]]
    /\ UNCHANGED state
    /\ WgUnchanged

NextWg ==
    \/ \E w \in Workers : AddFetch(w)
    \/ \E w \in Workers : AddTake(w)
    \/ \E w \in Workers : DoneFetch(w)
    \/ \E w \in Workers : DoneWake(w)
    \/ PollLoad
    \/ PollRegister
    \/ PollRecheck
    \/ Repoll

SpecWg == InitWg /\ [][NextWg]_vars

(***************************************************************************)
(* SpecLock: the State mutex. Every handler of the actor is the sequence   *)
(* of its lock, unlock and await points in source order; "step" is code    *)
(* that neither locks nor awaits. A guard is unlocked where Rust drops it: *)
(* at the end of the if condition, block or match that holds it. Another   *)
(* thread, holding the Arc of PuppyPeer::state, locks and unlocks freely.  *)
(* state is the mutex, cur the handler that runs and its position.         *)
(***************************************************************************)
LockCmds == {"cmd ListDir self", "cmd ListDir remote", "cmd ListCpus",
             "cmd ListPermissions", "cmd ReadFile self", "cmd ReadFile remote",
             "cmd Connect"}
LockEvents == {"req ListDir", "req StatFile", "req ReadFile", "req WriteFile",
               "req denied", "req ListCpus", "req ListPermissions",
               "req CreateUser", "req CreateToken",
               "ConnectionEstablished", "ConnectionClosed", "mdns Discovered"}

\* handle_cmd ReadFile with the guard bound to a name that lives to the end
\* of the arm; the other handlers as they are
handler_ops_guard_kept(h) ==
    CASE h = "cmd ListDir self" -> << "lock", "unlock", "await", "step" >>
      [] h = "cmd ReadFile self" -> << "lock", "await", "step", "unlock" >>
      [] h \in {"cmd ListDir remote", "cmd ListCpus", "cmd ListPermissions",
                "cmd ReadFile remote"} -> << "lock", "unlock", "step" >>
      [] h = "cmd Connect" -> << "step" >>
      [] h \in {"req ListDir", "req StatFile", "req ReadFile"} ->
            << "await", "lock", "unlock", "await", "step" >>
      [] h = "req WriteFile" -> << "await", "await", "lock", "unlock", "await", "step" >>
      [] h = "req denied" -> << "await", "lock", "unlock", "step" >>
      [] h = "req ListCpus" -> << "step" >>
      [] h \in {"req ListPermissions", "req CreateUser", "req CreateToken"} ->
            << "lock", "step", "unlock", "step" >>
      [] h \in {"ConnectionEstablished", "ConnectionClosed"} ->
            << "lock", "step", "unlock" >>
      [] h = "mdns Discovered" -> << "lock", "step", "unlock", "step" >>

\* the lock, unlock and await points of each handler of app.rs
handler_ops(h) ==
    CASE h = "cmd ListDir self" -> << "lock", "unlock", "await", "step" >>
      [] h = "cmd ReadFile self" -> << "lock", "unlock", "await", "step" >>
      [] h \in {"cmd ListDir remote", "cmd ListCpus", "cmd ListPermissions",
                "cmd ReadFile remote"} -> << "lock", "unlock", "step" >>
      [] h = "cmd Connect" -> << "step" >>
      [] h \in {"req ListDir", "req StatFile", "req ReadFile"} ->
            << "await", "lock", "unlock", "await", "step" >>
      [] h = "req WriteFile" -> << "await", "await", "lock", "unlock", "await", "step" >>
      [] h = "req denied" -> << "await", "lock", "unlock", "step" >>
      [] h = "req ListCpus" -> << "step" >>
      [] h \in {"req ListPermissions", "req CreateUser", "req CreateToken"} ->
            << "lock", "step", "unlock", "step" >>
      [] h \in {"ConnectionEstablished", "ConnectionClosed"} ->
            << "lock", "step", "unlock" >>
      [] h = "mdns Discovered" -> << "lock", "step", "unlock", "step" >>

\* the operation the running handler is at; "return" past its last one
next_op(c) ==
    IF c.pc > Len(handler_ops(c.kind)) THEN "return" ELSE handler_ops(c.kind)[c.pc]

InitLock ==
    /\ actor = "running"
    /\ cur = Nil
    /\ rx = <<>>
    /\ pending_requests = <<>>
    /\ next_request_id = 1
    /\ oneshot = <<>>
    /\ shutdown_tx = "armed"
    /\ inbound = <<>>
    /\ fs = <<>>
    /\ state = [locked_by |-> None]
    /\ hist = [caller |-> "idle"]
    /\ fn_in = Nil
    /\ fn_out = Nil

LockUnchanged ==
    UNCHANGED << actor, pending_requests, next_request_id, oneshot, shutdown_tx,
                 inbound, fs, fn_in, fn_out >>

\* a facade method sends its command and awaits the one-shot
CallerSend(h) ==
    /\ hist.caller = "idle"
    /\ rx' = Append(rx, h)
    /\ hist' = [caller |-> "awaiting"]
    /\ UNCHANGED << cur, state >>
    /\ LockUnchanged

\* select takes the command at the head of the queue
LockTakeCmd ==
    /\ cur = Nil
    /\ rx # <<>>
    /\ cur' = [kind |-> Head(rx), pc |-> 1]
    /\ rx' = Tail(rx)
    /\ UNCHANGED << state, hist >>
    /\ LockUnchanged

\* select takes a swarm event
LockTakeEvent(h) ==
    /\ cur = Nil
    /\ cur' = [kind |-> h, pc |-> 1]
    /\ UNCHANGED << rx, state, hist >>
    /\ LockUnchanged

\* state.lock(): the thread blocks, without suspending, until the mutex is free
ActorLock ==
    /\ cur # Nil
    /\ next_op(cur) = "lock"
    /\ state.locked_by = None
    /\ state' = [locked_by |-> Some("actor")]
    /\ cur' = [cur EXCEPT !.pc = @ + 1]
    /\ UNCHANGED << rx, hist >>
    /\ LockUnchanged

\* the guard is dropped
ActorUnlock ==
    /\ cur # Nil
    /\ next_op(cur) = "unlock"
    /\ state' = [locked_by |-> None]
    /\ cur' = [cur EXCEPT !.pc = @ + 1]
    /\ UNCHANGED << rx, hist >>
    /\ LockUnchanged

\* the handler is resumed from an await, or runs code without lock or await
ActorAdvance ==
    /\ cur # Nil
    /\ next_op(cur) \in {"await", "step"}
    /\ cur' = [cur EXCEPT !.pc = @ + 1]
    /\ UNCHANGED << rx, state, hist >>
    /\ LockUnchanged

\* the handler returns to the select loop; a command's caller has its reply
ActorReturn ==
    /\ cur # Nil
    /\ next_op(cur) = "return"
    /\ cur' = Nil
    /\ hist' = IF cur.kind \in LockCmds THEN [caller |-> "idle"] ELSE hist
    /\ UNCHANGED << rx, state >>
    /\ LockUnchanged

\* another thread locks the State it got from PuppyPeer::state
UserLock ==
    /\ state.locked_by = None
    /\ state' = [locked_by |-> Some("user")]
    /\ UNCHANGED << cur, rx, hist >>
    /\ LockUnchanged

UserUnlock ==
    /\ state.locked_by = Some("user")
    /\ state' = [locked_by |-> None]
    /\ UNCHANGED << cur, rx, hist >>
    /\ LockUnchanged

NextLock ==
    \/ \E h \in LockCmds : CallerSend(h)
    \/ LockTakeCmd
    \/ \E h \in LockEvents : LockTakeEvent(h)
    \/ ActorLock
    \/ ActorUnlock
    \/ ActorAdvance
    \/ ActorReturn
    \/ UserLock
    \/ UserUnlock

SpecLock == InitLock /\ [][NextLock]_vars

(***************************************************************************)
(* SpecFlags: FolderRule::allows on every rule byte and access byte.       *)
(***************************************************************************)
\* the greatest u8: flags and access are bytes
U8_MAX == 255

InitFlags ==
    /\ ActorIdle
    /\ hist = Nil
    /\ state = DefaultState
    /\ fs = <<>>
    /\ fn_in \in [flags : 0..U8_MAX, access : 0..U8_MAX]
    /\ fn_out = Nil

\* one call of FolderRule::allows
FlagsCheck ==
    /\ fn_out = Nil
    /\ fn_out' = [allowed |-> allows(fn_in.flags, fn_in.access)]
    /\ UNCHANGED << actor_vars, state, fs, fn_in >>

NextFlags == FlagsCheck

SpecFlags == InitFlags /\ [][NextFlags]_vars

(***************************************************************************)
(* SpecFs: inbound file requests of a remote peer against a filesystem     *)
(* with a symbolic link, after the folders were shared.                    *)
(***************************************************************************)
BaseFs ==
    (<<>> :> Dir) @@ (<< "pub" >> :> Dir) @@ (<< "pub", "a" >> :> File(<< 5 >>))
    @@ (<< "secret" >> :> Dir) @@ (<< "secret", "s" >> :> File(<< 7 >>))

LinkTargets ==
    {<< "secret" >>, << "secret", "s" >>, << "secret", "new" >>, << "pub", "l" >>}

\* the filesystems a run starts from: /pub/l is absent or a symbolic link
FsSet == {BaseFs} \cup {(<< "pub", "l" >> :> Link(t)) @@ BaseFs : t \in LinkTargets}

SharePaths == {<< "pub" >>, << "pub", "l" >>}

ReqPaths ==
    {<< "pub" >>, << "pub", "a" >>, << "pub", "l" >>, << "pub", "new" >>,
     << "pub", "..", "secret", "s" >>, << "pub", "l", "s" >>, << "nope", "x" >>}

FsReqs ==
    {[tag |-> "ListDir", path |-> p] : p \in ReqPaths}
    \cup {[tag |-> "StatFile", path |-> p] : p \in ReqPaths}
    \cup {[tag |-> "ReadFile", path |-> p, offset |-> 0, length |-> None] : p \in ReqPaths}
    \cup {[tag |-> "WriteFile", path |-> p, offset |-> o, data |-> << 1 >>]
          : p \in ReqPaths, o \in 0..MaxOffset}

InitFs ==
    /\ ActorIdle
    /\ hist = [shares |-> <<>>, reqs |-> 0]
    /\ state = DefaultState
    /\ fs \in FsSet
    /\ fn_in = Nil
    /\ fn_out = Nil

\* PuppyPeer::share_read_only_folder(path)
FsShareReadOnly(path) ==
    /\ Len(hist.shares) < MaxShares
    /\ state' = share_read_only_folder(state, fs, path)
    /\ hist' = [hist EXCEPT !.shares = Append(@, "ro")]
    /\ UNCHANGED << actor, cur, rx, pending_requests, next_request_id, oneshot,
                    shutdown_tx, inbound, fs, fn_in, fn_out >>

\* PuppyPeer::share_read_write_folder(path)
FsShareReadWrite(path) ==
    /\ Len(hist.shares) < MaxShares
    /\ state' = share_read_write_folder(state, fs, path)
    /\ hist' = [hist EXCEPT !.shares = Append(@, "rw")]
    /\ UNCHANGED << actor, cur, rx, pending_requests, next_request_id, oneshot,
                    shutdown_tx, inbound, fs, fn_in, fn_out >>

\* the Request arm of handle_agent_event for one inbound request
FsRequest(peer, req) ==
    LET outcome == handle_puppy_peer_req(state, fs, peer, req) IN
    /\ hist.reqs < MaxFsReqs
    /\ hist' = [hist EXCEPT !.reqs = @ + 1]
    /\ fn_in' = [peer |-> peer, req |-> req, st |-> state, fs |-> fs,
                 shares |-> hist.shares]
    /\ fn_out' = [kind |-> outcome.kind, res |-> response_for(outcome),
                  acl_path |-> outcome.acl_path]
    /\ state' = outcome.st
    /\ fs' = outcome.fs
    /\ UNCHANGED << actor, cur, rx, pending_requests, next_request_id, oneshot,
                    shutdown_tx, inbound >>

NextFs ==
    \/ \E path \in SharePaths : FsShareReadOnly(path)
    \/ \E path \in SharePaths : FsShareReadWrite(path)
    \/ \E peer \in RemotePeers, req \in FsReqs : FsRequest(peer, req)

SpecFs == InitFs /\ [][NextFs]_vars

(***************************************************************************)
(* SpecShare: sequences of share_read_only_folder and                      *)
(* share_read_write_folder calls on one filesystem.                        *)
(***************************************************************************)
ShareCallPaths == {<< "pub" >>, << "pub", "l" >>, << "secret" >>, << "nope" >>}

InitShare ==
    /\ ActorIdle
    /\ fs \in FsSet
    /\ state = DefaultState
    /\ hist = [calls |-> <<>>, after |-> <<>>]
    /\ fn_in = Nil
    /\ fn_out = Nil

\* PuppyPeer::share_read_only_folder(path); hist keeps the calls made and
\* the State each one left
ShareReadOnly(path) ==
    /\ Len(hist.calls) < MaxShareCalls
    /\ state' = share_read_only_folder(state, fs, path)
    /\ hist' = [calls |-> Append(hist.calls, [kind |-> "ro", path |-> path]),
                after |-> Append(hist.after, state')]
    /\ UNCHANGED << actor, cur, rx, pending_requests, next_request_id, oneshot,
                    shutdown_tx, inbound, fs, fn_in, fn_out >>

\* PuppyPeer::share_read_write_folder(path)
ShareReadWrite(path) ==
    /\ Len(hist.calls) < MaxShareCalls
    /\ state' = share_read_write_folder(state, fs, path)
    /\ hist' = [calls |-> Append(hist.calls, [kind |-> "rw", path |-> path]),
                after |-> Append(hist.after, state')]
    /\ UNCHANGED << actor, cur, rx, pending_requests, next_request_id, oneshot,
                    shutdown_tx, inbound, fs, fn_in, fn_out >>

NextShare ==
    \/ \E path \in ShareCallPaths : ShareReadOnly(path)
    \/ \E path \in ShareCallPaths : ShareReadWrite(path)

SpecShare == InitShare /\ [][NextShare]_vars

(***************************************************************************)
(* The actor: App::run under the select of PuppyPeer::new, the facade and   *)
(* the swarm events the protocol layer delivers.                            *)
(* No folder is shared in this specification (the state stays as           *)
(* State::default made it, but for users); shares are in SpecFs.            *)
(***************************************************************************)
\* the waiter Pending::<T>::new(tx): the call whose one-shot it holds and
\* the PeerRes variant its ResponseDecoder accepts
Pending(call, ty) == [call |-> call, ty |-> ty]

\* a decoder that accepts every variant
decode_any(ty, response) == "Ok"

\* ResponseDecoder::decode for the four decoders
decode(ty, response) ==
    IF response.tag = ty THEN "Ok" ELSE "Err:unexpected response"

\* oneshot::Sender::send: Err, and the value is lost, once the receiver is
\* dropped; the callers of send ignore the result
oneshot_send(os, call, value) ==
    IF os[call] = "receiver dropped" THEN os ELSE [os EXCEPT ![call] = value]

\* a oneshot::Sender dropped unsent: the receiver sees the channel closed
oneshot_drop(os, calls) ==
    [c \in DOMAIN os |-> IF c \in calls /\ os[c] = "pending" THEN "closed" ELSE os[c]]

\* Pending::complete
complete(os, waiter, response) ==
    oneshot_send(os, waiter.call,
                 IF response.tag = "Error" THEN "Err:" \o response.msg
                 ELSE decode(waiter.ty, response))

\* Pending::fail
fail(os, waiter, error) == oneshot_send(os, waiter.call, error)

\* HashMap::insert on pending_requests
insert(pr, id, waiter) ==
    [prev |-> IF id \in DOMAIN pr THEN Some(pr[id]) ELSE None,
     map |-> (id :> waiter) @@ pr]

\* HashMap::remove that leaves the entry in the table
remove_keeps_entry(pr, id) ==
    [found |-> IF id \in DOMAIN pr THEN Some(pr[id]) ELSE None,
     map |-> pr]

\* HashMap::remove on pending_requests
remove(pr, id) ==
    [found |-> IF id \in DOMAIN pr THEN Some(pr[id]) ELSE None,
     map |-> [i \in DOMAIN pr \ {id} |-> pr[i]]]

\* UnboundedReceiver::recv taking the newest command
recv_newest(q) == [cmd |-> q[Len(q)], rest |-> SubSeq(q, 1, Len(q) - 1)]

\* UnboundedReceiver::recv on a non-empty queue
recv(q) == [cmd |-> Head(q), rest |-> Tail(q)]

\* a Response arm that leaves the waiter of a caller that has gone away
handle_response_keeps_closed(pr, os, request_id, response) ==
    LET r == remove(pr, request_id) IN
    IF r.found = None \/ os[r.found[1].call] = "receiver dropped"
    THEN [pending_requests |-> pr, oneshot |-> os, outcome |-> None]
    ELSE [pending_requests |-> r.map,
          oneshot |-> complete(os, r.found[1], response),
          outcome |-> Some("matched")]

\* the Response arm of handle_agent_event
handle_response(pr, os, request_id, response) ==
    LET r == remove(pr, request_id) IN
    IF r.found = None
    THEN [pending_requests |-> r.map, oneshot |-> os, outcome |-> None]
    ELSE [pending_requests |-> r.map,
          oneshot |-> complete(os, r.found[1], response),
          outcome |-> Some("matched")]

\* the OutboundFailure arm that only logs
handle_outbound_failure_logs(pr, os, request_id) ==
    [pending_requests |-> pr, oneshot |-> os, outcome |-> None]

\* the OutboundFailure arm of handle_agent_event
handle_outbound_failure(pr, os, request_id) ==
    LET r == remove(pr, request_id) IN
    IF r.found = None
    THEN [pending_requests |-> r.map, oneshot |-> os, outcome |-> None]
    ELSE [pending_requests |-> r.map,
          oneshot |-> fail(os, r.found[1], "Err:request failed"),
          outcome |-> Some("failed")]

\* the one-shot senders the App owns: in the waiter table, in the queued
\* commands and in the command a suspended handler is working on
senders(pr, q, c) ==
    {pr[i].call : i \in DOMAIN pr}
    \cup {q[i].id : i \in {k \in DOMAIN q : q[k].kind # "Connect"}}
    \cup (IF c # Nil /\ c.kind = "cmd" THEN {c.cmd.id} ELSE {})

\* the App dropped with one-shot senders kept alive
drop_app_leaks(os, pr, q, c) == os

\* the App dropped at the end of the task: every sender it owns is dropped
drop_app(os, pr, q, c) == oneshot_drop(os, senders(pr, q, c))

\* the decoder of the waiter a command registers
decoder_of(kind) ==
    CASE kind = "ListDir" -> "DirEntries"
      [] kind = "ListCpus" -> "Cpus"
      [] kind = "ListPermissions" -> "Permissions"
      [] kind = "ReadFile" -> "FileChunk"

\* the remote arm of a command handler: send_request, then insert the
\* waiter; ListDir and ListPermissions fail a waiter they replace, ListCpus
\* and ReadFile drop it
send_and_register(cmd, pr, os, request_id) ==
    LET ins == insert(pr, request_id, Pending(cmd.id, decoder_of(cmd.kind))) IN
    [pending_requests |-> ins.map,
     oneshot |-> IF ins.prev = None THEN os
                 ELSE IF cmd.kind \in {"ListDir", "ListPermissions"}
                 THEN fail(os, ins.prev[1], "Err:replaced")
                 ELSE oneshot_drop(os, {ins.prev[1].call}),
     replaced |-> ins.prev # None]

\* the reply of a self-targeted command from local data
local_reply(cmd, st, f) ==
    CASE cmd.kind = "ListDir" ->
            IF collect_dir_entries(f, cmd.path).ok THEN "Ok" ELSE "Err:io"
      [] cmd.kind = "ReadFile" ->
            IF read_file(f, cmd.path, 0, None).ok THEN "Ok" ELSE "Err:io"
      [] cmd.kind = "ListCpus" -> "Ok"
      [] cmd.kind = "ListPermissions" -> "Ok"

\* the is_self test of a command handler that never finds the target local
is_self_never(st, peer) == FALSE

\* the is_self test of the command handlers: state.me == peer
is_self(st, peer) == st.me = peer

\* the commands whose self-targeted arm awaits the filesystem
AwaitingCmds == {"ListDir", "ReadFile"}
\* the requests whose handler awaits the filesystem
AwaitingReqs == {"ListDir", "StatFile", "ReadFile", "WriteFile"}

CmdKinds == {"ListDir", "ListCpus", "ListPermissions", "ReadFile"}
CmdPath == << "pub", "a" >>
ResTags == {"DirEntries", "Cpus", "Permissions", "FileChunk", "Error"}
\* the responses of a remote peer, by variant
Responses(msgs) ==
    {[tag |-> t] : t \in ResTags \ {"Error"}} \cup {ErrorRes(m) : m \in msgs}

ActorReqs ==
    {[tag |-> "ListDir", path |-> << "pub" >>],
     [tag |-> "StatFile", path |-> << "pub", "a" >>],
     [tag |-> "ReadFile", path |-> << "pub", "a" >>, offset |-> 0, length |-> None],
     [tag |-> "WriteFile", path |-> << "pub", "new" >>, offset |-> 0, data |-> << 1 >>],
     [tag |-> "CreateUser", username |-> "u", password |-> "pw"],
     [tag |-> "CreateToken", username |-> "u"]}
    \cup {[tag |-> t] : t \in {"ListCpus", "ListDisks", "ListInterfaces",
                               "ListPermissions", "Authenticate", "GrantAccess",
                               "ListUsers", "ListTokens", "RevokeToken", "RevokeUser"}}

Init ==
    /\ ActorIdle
    /\ state = DefaultState
    /\ fs = BaseFs
    /\ hist = [started |-> <<>>, finished |-> <<>>, issued |-> <<>>,
               terminal |-> {}, events |-> 0, done |-> <<>>, dropped |-> {},
               cancelled |-> Nil]
    /\ fn_in = Nil
    /\ fn_out = Nil

\* PuppyPeer::list_dir, list_cpus, list_permissions, read_file: a one-shot
\* is made and the command sent; the send fails once the receiver is gone
Call(kind, peer) ==
    /\ Len(oneshot) < MaxCalls
    /\ IF actor = "running"
       THEN /\ rx' = Append(rx, [kind |-> kind, peer |-> peer, path |-> CmdPath,
                                 id |-> Len(oneshot) + 1])
            /\ oneshot' = Append(oneshot, "pending")
       ELSE /\ rx' = rx
            /\ oneshot' = Append(oneshot, "send_failed")
    /\ UNCHANGED << actor, cur, pending_requests, next_request_id, shutdown_tx,
                    inbound, state, fs, hist, fn_in, fn_out >>

\* Command::Connect sent on the command sender App::new returns
SendConnect ==
    /\ Len(oneshot) < MaxCalls
    /\ actor = "running"
    /\ rx' = Append(rx, [kind |-> "Connect", peer |-> "p1", path |-> <<>>,
                         id |-> Len(oneshot) + 1])
    /\ oneshot' = Append(oneshot, "no reply")
    /\ UNCHANGED << actor, cur, pending_requests, next_request_id, shutdown_tx,
                    inbound, state, fs, hist, fn_in, fn_out >>

\* the task ends, by the shutdown branch or by a panic: the App is dropped
EndTask(how, app_oneshot, app_pending, app_rx, app_cur) ==
    /\ actor' = how
    /\ oneshot' = drop_app(app_oneshot, app_pending, app_rx, app_cur)
    /\ pending_requests' = <<>>
    /\ rx' = <<>>
    /\ cur' = Nil

\* the Request arm of handle_agent_event from the point where the handler
\* of the i-th inbound request runs to its end: send_response with its
\* result, or with Error("Internal error"); a panic ends the task instead
FinishRequest(i, peer, req, responses) ==
    LET outcome == handle_puppy_peer_req(state, fs, peer, req) IN
    /\ state' = outcome.st
    /\ fs' = outcome.fs
    /\ IF outcome.kind = "Panic"
       THEN /\ EndTask("panicked", oneshot, pending_requests, rx, Nil)
            /\ inbound' = responses
            /\ hist' = [hist EXCEPT !.dropped = DOMAIN pending_requests]
       ELSE /\ inbound' = [responses EXCEPT ![i] = @ + 1]
            /\ cur' = Nil
            /\ UNCHANGED << actor, oneshot, pending_requests, rx, hist >>

\* select takes a swarm event, an inbound Request: the handler runs to its
\* first await, or to its end when it has none
RequestEvent(peer, req) ==
    /\ actor = "running"
    /\ cur = Nil
    /\ Len(inbound) < MaxInbound
    /\ IF req.tag \in AwaitingReqs
       THEN /\ inbound' = Append(inbound, 0)
            /\ cur' = [kind |-> "req", i |-> Len(inbound) + 1, peer |-> peer, req |-> req]
            /\ UNCHANGED << actor, oneshot, pending_requests, rx, state, fs, hist >>
       ELSE FinishRequest(Len(inbound) + 1, peer, req, Append(inbound, 0))
    /\ UNCHANGED << next_request_id, shutdown_tx, fn_in, fn_out >>

\* the suspended request handler is resumed and runs to its end
ResumeRequest ==
    /\ actor = "running"
    /\ cur # Nil
    /\ cur.kind = "req"
    /\ FinishRequest(cur.i, cur.peer, cur.req, inbound)
    /\ UNCHANGED << next_request_id, shutdown_tx, fn_in, fn_out >>

\* select takes a swarm event, a Response
ResponseEvent(request_id, response) ==
    /\ actor = "running"
    /\ cur = Nil
    /\ hist.events < MaxEvents
    /\ LET h == handle_response(pending_requests, oneshot, request_id, response) IN
       /\ pending_requests' = h.pending_requests
       /\ oneshot' = h.oneshot
       /\ hist' = [hist EXCEPT !.events = @ + 1,
                               !.terminal = @ \cup {request_id},
                               !.done[request_id] = IF h.outcome = None THEN @ ELSE @ + 1]
    /\ UNCHANGED << actor, cur, rx, next_request_id, shutdown_tx, inbound, state,
                    fs, fn_in, fn_out >>

\* an OutboundFailure handled although another handler is suspended
OutboundFailureEvent_while_suspended(request_id) ==
    /\ actor = "running"
    /\ hist.events < MaxEvents
    /\ LET h == handle_outbound_failure(pending_requests, oneshot, request_id) IN
       /\ pending_requests' = h.pending_requests
       /\ oneshot' = h.oneshot
       /\ hist' = [hist EXCEPT !.events = @ + 1,
                               !.terminal = @ \cup {request_id},
                               !.done[request_id] = IF h.outcome = None THEN @ ELSE @ + 1]
    /\ UNCHANGED << actor, cur, rx, next_request_id, shutdown_tx, inbound, state,
                    fs, fn_in, fn_out >>

\* select takes a swarm event, an OutboundFailure
OutboundFailureEvent(request_id) ==
    /\ actor = "running"
    /\ cur = Nil
    /\ hist.events < MaxEvents
    /\ LET h == handle_outbound_failure(pending_requests, oneshot, request_id) IN
       /\ pending_requests' = h.pending_requests
       /\ oneshot' = h.oneshot
       /\ hist' = [hist EXCEPT !.events = @ + 1,
                               !.terminal = @ \cup {request_id},
                               !.done[request_id] = IF h.outcome = None THEN @ ELSE @ + 1]
    /\ UNCHANGED << actor, cur, rx, next_request_id, shutdown_tx, inbound, state,
                    fs, fn_in, fn_out >>

\* select takes the next command: handle_cmd runs to its first await, or to
\* its end when it has none
TakeCmd ==
    /\ actor = "running"
    /\ cur = Nil
    /\ rx # <<>>
    /\ LET r == recv(rx)
           cmd == r.cmd
       IN /\ rx' = r.rest
          /\ IF cmd.kind = "Connect"
             THEN /\ hist' = [hist EXCEPT !.started = Append(@, cmd.id),
                                          !.finished = Append(@, cmd.id)]
                  /\ UNCHANGED << cur, oneshot, pending_requests, next_request_id >>
             ELSE IF is_self(state, cmd.peer)
             THEN IF cmd.kind \in AwaitingCmds
                  THEN /\ cur' = [kind |-> "cmd", cmd |-> cmd]
                       /\ hist' = [hist EXCEPT !.started = Append(@, cmd.id)]
                       /\ UNCHANGED << oneshot, pending_requests, next_request_id >>
                  ELSE /\ oneshot' = oneshot_send(oneshot, cmd.id, local_reply(cmd, state, fs))
                       /\ hist' = [hist EXCEPT !.started = Append(@, cmd.id),
                                               !.finished = Append(@, cmd.id)]
                       /\ UNCHANGED << cur, pending_requests, next_request_id >>
             ELSE LET h == send_and_register(cmd, pending_requests, oneshot,
                                             next_request_id)
                  IN /\ next_request_id' = next_request_id + 1
                     /\ pending_requests' = h.pending_requests
                     /\ oneshot' = h.oneshot
                     /\ hist' = [hist EXCEPT !.started = Append(@, cmd.id),
                                             !.finished = Append(@, cmd.id),
                                             !.issued = Append(@, cmd.id),
                                             !.done = Append(@, 0)]
                     /\ cur' = cur
    /\ UNCHANGED << actor, shutdown_tx, inbound, state, fs, fn_in, fn_out >>

\* the suspended self-targeted command handler is resumed and replies
ResumeCmd ==
    /\ actor = "running"
    /\ cur # Nil
    /\ cur.kind = "cmd"
    /\ oneshot' = oneshot_send(oneshot, cur.cmd.id, local_reply(cur.cmd, state, fs))
    /\ cur' = Nil
    /\ hist' = [hist EXCEPT !.finished = Append(@, cur.cmd.id)]
    /\ UNCHANGED << actor, rx, pending_requests, next_request_id, shutdown_tx,
                    inbound, state, fs, fn_in, fn_out >>

\* PuppyPeer::wait sends on shutdown_tx after the interrupt (dropping the
\* PuppyPeer drops the sender, which the actor's select takes the same way)
ShutdownSignal ==
    /\ shutdown_tx = "armed"
    /\ shutdown_tx' = "sent"
    /\ UNCHANGED << actor, cur, rx, pending_requests, next_request_id, oneshot,
                    inbound, state, fs, hist, fn_in, fn_out >>

\* the shutdown branch of the select in PuppyPeer::new: taken at the select
\* of App::run or while a handler is suspended; the loop breaks, the task
\* ends and the App, with the handler's future, is dropped
ActorShutdown ==
    /\ actor = "running"
    /\ shutdown_tx = "sent"
    /\ EndTask("stopped", oneshot, pending_requests, rx, cur)
    /\ hist' = [hist EXCEPT !.cancelled = cur, !.dropped = DOMAIN pending_requests]
    /\ UNCHANGED << next_request_id, shutdown_tx, inbound, state, fs, fn_in, fn_out >>

Next ==
    \/ \E kind \in CmdKinds, peer \in {Me, "p1"} : Call(kind, peer)
    \/ SendConnect
    \/ \E peer \in RemotePeers, req \in ActorReqs : RequestEvent(peer, req)
    \/ ResumeRequest
    \/ \E id \in 1..(next_request_id - 1), response \in Responses({"remote"}) :
          ResponseEvent(id, response)
    \/ \E id \in 1..(next_request_id - 1) : OutboundFailureEvent(id)
    \/ TakeCmd
    \/ ResumeCmd
    \/ ShutdownSignal
    \/ ActorShutdown

Spec == Init /\ [][Next]_vars

\* the select of PuppyPeer::new polls shutdown_rx whenever App::run is
\* pending and picks among ready branches at random: once the signal is
\* sent the shutdown branch is taken
FairSpec == Spec /\ WF_vars(ActorShutdown)

(***************************************************************************)
(* SpecWaiter: the Response and OutboundFailure arms on a table of waiters  *)
(* the command handlers registered.                                         *)
(***************************************************************************)
WaiterTypes == {decoder_of(k) : k \in CmdKinds}
WaiterTables ==
    UNION {[1..n -> WaiterTypes] : n \in 1..MaxWaiters}
WaiterResponses == Responses({"Access denied", "Internal error"})

\* the table after the commands 1..n were handled: request id i waits for
\* call i
InitWaiter ==
    /\ \E tys \in WaiterTables :
          /\ pending_requests = [i \in DOMAIN tys |-> Pending(i, tys[i])]
          /\ oneshot = [i \in DOMAIN tys |-> "pending"]
          /\ next_request_id = Len(tys) + 1
    /\ actor = "running"
    /\ cur = Nil
    /\ rx = <<>>
    /\ shutdown_tx = "armed"
    /\ inbound = <<>>
    /\ state = DefaultState
    /\ fs = BaseFs
    /\ hist = [events |-> 0]
    /\ fn_in = Nil
    /\ fn_out = Nil

\* the Response arm of handle_agent_event
WaiterResponse(request_id, response) ==
    /\ hist.events < MaxEvents
    /\ LET h == handle_response(pending_requests, oneshot, request_id, response) IN
       /\ pending_requests' = h.pending_requests
       /\ oneshot' = h.oneshot
       /\ fn_in' = [event |-> "Response", request_id |-> request_id,
                    response |-> response, waiter |-> remove(pending_requests, request_id).found]
       /\ fn_out' = [outcome |-> h.outcome]
    /\ hist' = [hist EXCEPT !.events = @ + 1]
    /\ UNCHANGED << actor, cur, rx, next_request_id, shutdown_tx, inbound, state, fs >>

\* the OutboundFailure arm of handle_agent_event
WaiterFailure(request_id) ==
    /\ hist.events < MaxEvents
    /\ LET h == handle_outbound_failure(pending_requests, oneshot, request_id) IN
       /\ pending_requests' = h.pending_requests
       /\ oneshot' = h.oneshot
       /\ fn_in' = [event |-> "OutboundFailure", request_id |-> request_id,
                    response |-> Nil, waiter |-> remove(pending_requests, request_id).found]
       /\ fn_out' = [outcome |-> h.outcome]
    /\ hist' = [hist EXCEPT !.events = @ + 1]
    /\ UNCHANGED << actor, cur, rx, next_request_id, shutdown_tx, inbound, state, fs >>

NextWaiter ==
    \/ \E id \in 1..MaxWaiters, response \in WaiterResponses : WaiterResponse(id, response)
    \/ \E id \in 1..MaxWaiters : WaiterFailure(id)

SpecWaiter == InitWaiter /\ [][NextWaiter]_vars

(***************************************************************************)
(* SpecDrop: SpecWaiter with callers that drop the future of their facade  *)
(* call, and with it the receiver of the one-shot, before the reply.       *)
(***************************************************************************)
\* the future of a facade call is dropped at its rx.await
DropFuture(call) ==
    /\ call \in DOMAIN oneshot
    /\ oneshot[call] = "pending"
    /\ oneshot' = [oneshot EXCEPT ![call] = "receiver dropped"]
    /\ fn_in' = [event |-> "DropFuture", request_id |-> call, response |-> Nil,
                 waiter |-> None]
    /\ fn_out' = Nil
    /\ UNCHANGED << actor, cur, rx, pending_requests, next_request_id, shutdown_tx,
                    inbound, state, fs, hist >>

NextDrop ==
    \/ \E id \in 1..MaxWaiters, response \in WaiterResponses : WaiterResponse(id, response)
    \/ \E id \in 1..MaxWaiters : WaiterFailure(id)
    \/ \E call \in 1..MaxWaiters : DropFuture(call)

SpecDrop == InitWaiter /\ [][NextDrop]_vars

(***************************************************************************)
(* SpecReplace: the remote arm of the command handlers on a table of       *)
(* waiters, send_request returning an id that may already be in the table. *)
(***************************************************************************)
InitReplace ==
    /\ \E tys \in WaiterTables :
          /\ pending_requests = [i \in DOMAIN tys |-> Pending(i, tys[i])]
          /\ oneshot = [i \in DOMAIN tys |-> "pending"]
          /\ next_request_id = Len(tys) + 1
    /\ actor = "running"
    /\ cur = Nil
    /\ rx = <<>>
    /\ shutdown_tx = "armed"
    /\ inbound = <<>>
    /\ state = DefaultState
    /\ fs = BaseFs
    /\ hist = [registered |-> 0]
    /\ fn_in = Nil
    /\ fn_out = Nil

\* handle_cmd for a command of the given kind to a remote peer, its
\* one-shot made by the facade: send_request returns request_id and the
\* waiter is inserted under it
Register(kind, request_id) ==
    LET call == Len(oneshot) + 1
        h == send_and_register([kind |-> kind, peer |-> "p1", path |-> CmdPath, id |-> call],
                               pending_requests, Append(oneshot, "pending"), request_id)
    IN /\ hist.registered < MaxRegisters
       /\ pending_requests' = h.pending_requests
       /\ oneshot' = h.oneshot
       /\ fn_in' = [kind |-> kind, request_id |-> request_id, call |-> call,
                    prev |-> insert(pending_requests, request_id, Nil).prev]
       /\ fn_out' = [replaced |-> h.replaced]
       /\ hist' = [registered |-> hist.registered + 1]
       /\ UNCHANGED << actor, cur, rx, next_request_id, shutdown_tx, inbound, state, fs >>

NextReplace ==
    \E kind \in CmdKinds, request_id \in 1..(MaxWaiters + 1) : Register(kind, request_id)

SpecReplace == InitReplace /\ [][NextReplace]_vars

(***************************************************************************)
(* SpecConn: handle_swarm_event on connection events, with the mDNS        *)
(* events, the swarm events of the empty arms and the commands in between. *)
(* hist.open is the set of connections established and not yet closed,     *)
(* kept apart from state.connections.                                      *)
(***************************************************************************)
ConnPeers == {"p1", "p2"}
ConnAddrs == {"/ip4/1", "/ip4/2"}
\* the arms of handle_swarm_event that do nothing, or only log
OtherSwarmEvents ==
    {"IncomingConnection", "IncomingConnectionError", "OutgoingConnectionError",
     "Dialing", "NewExternalAddrCandidate", "ExternalAddrConfirmed",
     "ExternalAddrExpired", "NewExternalAddrOfPeer", "NewListenAddr",
     "ExpiredListenAddr", "ListenerClosed", "ListenerError"}

\* a peer_discovered that pushes without looking at the list
peer_discovered_always_push(st, peer_id, multiaddr) ==
    [st EXCEPT !.discovered_peers =
        Append(@, [peer_id |-> peer_id, multiaddr |-> multiaddr])]

\* State::peer_discovered
peer_discovered(st, peer_id, multiaddr) ==
    IF \E i \in DOMAIN st.discovered_peers : st.discovered_peers[i].peer_id = peer_id
    THEN st
    ELSE [st EXCEPT !.discovered_peers =
             Append(@, [peer_id |-> peer_id, multiaddr |-> multiaddr])]

\* State::peer_expired
peer_expired(st, peer_id, multiaddr) ==
    [st EXCEPT !.discovered_peers =
        SelectSeq(@, LAMBDA p : ~(p.peer_id = peer_id /\ p.multiaddr = multiaddr))]

\* the ConnectionEstablished arm of handle_swarm_event
connection_established(st, peer_id, connection_id) ==
    [st EXCEPT !.connections =
        Append(@, [peer_id |-> peer_id, connection_id |-> connection_id])]

\* a ConnectionClosed arm that drops every connection of the peer
connection_closed_by_peer(st, peer_id, connection_id) ==
    [st EXCEPT !.connections = SelectSeq(@, LAMBDA c : c.peer_id # peer_id)]

\* the ConnectionClosed arm of handle_swarm_event
connection_closed(st, peer_id, connection_id) ==
    [st EXCEPT !.connections = SelectSeq(@, LAMBDA c : c.connection_id # connection_id)]

\* State::default, with the tables the events write
InitConn ==
    /\ ActorIdle
    /\ inbound = <<>>
    /\ state = [me |-> Me, connections |-> <<>>, discovered_peers |-> <<>>]
    /\ fs = BaseFs
    /\ hist = [open |-> {}, next |-> 1, cmds |-> 0]
    /\ fn_in = Nil
    /\ fn_out = Nil

ConnUnchanged ==
    UNCHANGED << actor, cur, rx, pending_requests, next_request_id, oneshot,
                 shutdown_tx, inbound, fs, fn_out >>

\* SwarmEvent::ConnectionEstablished; the swarm numbers its connections
ConnectionEstablished(peer_id) ==
    /\ hist.next <= MaxConns
    /\ state' = connection_established(state, peer_id, hist.next)
    /\ hist' = [hist EXCEPT !.open = @ \cup {[peer_id |-> peer_id, connection_id |-> hist.next]},
                            !.next = @ + 1]
    /\ fn_in' = [event |-> "ConnectionEstablished", peer_id |-> peer_id,
                 connection_id |-> hist.next]
    /\ ConnUnchanged

\* SwarmEvent::ConnectionClosed, of a connection that is open
ConnectionClosed(c) ==
    /\ c \in hist.open
    /\ state' = connection_closed(state, c.peer_id, c.connection_id)
    /\ hist' = [hist EXCEPT !.open = @ \ {c}]
    /\ fn_in' = [event |-> "ConnectionClosed", peer_id |-> c.peer_id,
                 connection_id |-> c.connection_id]
    /\ ConnUnchanged

\* mdns::Event::Discovered with one item whose dial succeeds
MdnsDiscovered(peer_id, multiaddr) ==
    /\ state' = peer_discovered(state, peer_id, multiaddr)
    /\ fn_in' = [event |-> "Discovered", peer_id |-> peer_id, connection_id |-> 0]
    /\ UNCHANGED hist
    /\ ConnUnchanged

\* mdns::Event::Expired with one item
MdnsExpired(peer_id, multiaddr) ==
    /\ state' = peer_expired(state, peer_id, multiaddr)
    /\ fn_in' = [event |-> "Expired", peer_id |-> peer_id, connection_id |-> 0]
    /\ UNCHANGED hist
    /\ ConnUnchanged

\* the arms of handle_swarm_event with an empty body
OtherSwarmEvent(event) ==
    /\ fn_in' = [event |-> event, peer_id |-> "", connection_id |-> 0]
    /\ UNCHANGED << state, hist >>
    /\ ConnUnchanged

\* handle_cmd for a command to a remote peer: the request goes out and the
\* waiter is registered
ConnCommand(kind) ==
    LET call == Len(oneshot) + 1
        h == send_and_register([kind |-> kind, peer |-> "p1", path |-> CmdPath, id |-> call],
                               pending_requests, Append(oneshot, "pending"),
                               next_request_id)
    IN /\ hist.cmds < MaxConnCmds
       /\ pending_requests' = h.pending_requests
       /\ oneshot' = h.oneshot
       /\ next_request_id' = next_request_id + 1
       /\ hist' = [hist EXCEPT !.cmds = @ + 1]
       /\ fn_in' = [event |-> kind, peer_id |-> "p1", connection_id |-> 0]
       /\ UNCHANGED << actor, cur, rx, shutdown_tx, inbound, state, fs, fn_out >>

NextConn ==
    \/ \E peer_id \in ConnPeers : ConnectionEstablished(peer_id)
    \/ \E c \in hist.open : ConnectionClosed(c)
    \/ \E peer_id \in ConnPeers, multiaddr \in ConnAddrs : MdnsDiscovered(peer_id, multiaddr)
    \/ \E peer_id \in ConnPeers, multiaddr \in ConnAddrs : MdnsExpired(peer_id, multiaddr)
    \/ \E event \in OtherSwarmEvents : OtherSwarmEvent(event)
    \/ \E kind \in CmdKinds : ConnCommand(kind)

SpecConn == InitConn /\ [][NextConn]_vars

(***************************************************************************)
(* SpecMdns: the mDNS arms of handle_agent_event and the Connect command,  *)
(* each dial succeeding or failing, over a table of connections.           *)
(* hist.announced is the set of (peer, address) pairs that discovery has   *)
(* announced and not yet expired.                                          *)
(***************************************************************************)
DialResults == {"Ok", "Err"}

InitMdns ==
    /\ ActorIdle
    /\ inbound = <<>>
    /\ state = [me |-> Me, connections |-> <<>>, discovered_peers |-> <<>>]
    /\ fs = BaseFs
    /\ hist = [open |-> {}, next |-> 1, cmds |-> 0, announced |-> {}]
    /\ fn_in = Nil
    /\ fn_out = Nil

\* mdns::Event::Discovered with one item: the peer is recorded, then the
\* address is dialled and the result unwrapped
DiscoveredEvent(peer_id, multiaddr, dial) ==
    /\ actor = "running"
    /\ state' = peer_discovered(state, peer_id, multiaddr)
    /\ actor' = IF dial = "Err" THEN "panicked" ELSE actor
    /\ hist' = [hist EXCEPT !.announced = @ \cup {[peer_id |-> peer_id, multiaddr |-> multiaddr]}]
    /\ fn_in' = [event |-> "Discovered", peer_id |-> peer_id, multiaddr |-> multiaddr,
                 dial |-> dial]
    /\ fn_out' = [listed_before |->
                    \E i \in DOMAIN state.discovered_peers :
                       state.discovered_peers[i] = [peer_id |-> peer_id, multiaddr |-> multiaddr]]
    /\ UNCHANGED << cur, rx, pending_requests, next_request_id, oneshot, shutdown_tx,
                    inbound, fs >>

\* mdns::Event::Expired with one item
ExpiredEvent(peer_id, multiaddr) ==
    /\ actor = "running"
    /\ state' = peer_expired(state, peer_id, multiaddr)
    /\ hist' = [hist EXCEPT !.announced = @ \ {[peer_id |-> peer_id, multiaddr |-> multiaddr]}]
    /\ fn_in' = [event |-> "Expired", peer_id |-> peer_id, multiaddr |-> multiaddr,
                 dial |-> "none"]
    /\ fn_out' = [listed_before |->
                    \E i \in DOMAIN state.discovered_peers :
                       state.discovered_peers[i] = [peer_id |-> peer_id, multiaddr |-> multiaddr]]
    /\ UNCHANGED << actor, cur, rx, pending_requests, next_request_id, oneshot,
                    shutdown_tx, inbound, fs >>

\* handle_cmd for Command::Connect: a dial error is logged
ConnectCmd(multiaddr, dial) ==
    /\ actor = "running"
    /\ fn_in' = [event |-> "Connect", peer_id |-> "", multiaddr |-> multiaddr, dial |-> dial]
    /\ fn_out' = Nil
    /\ UNCHANGED << actor, cur, rx, pending_requests, next_request_id, oneshot,
                    shutdown_tx, inbound, state, fs, hist >>

\* SwarmEvent::ConnectionEstablished while the actor runs
MdnsConnected(peer_id) ==
    /\ actor = "running"
    /\ ConnectionEstablished(peer_id)

NextMdns ==
    \/ \E peer_id \in ConnPeers, multiaddr \in ConnAddrs, dial \in DialResults :
          DiscoveredEvent(peer_id, multiaddr, dial)
    \/ \E peer_id \in ConnPeers, multiaddr \in ConnAddrs : ExpiredEvent(peer_id, multiaddr)
    \/ \E multiaddr \in ConnAddrs, dial \in DialResults : ConnectCmd(multiaddr, dial)
    \/ \E peer_id \in ConnPeers : MdnsConnected(peer_id)

SpecMdns == InitMdns /\ [][NextMdns]_vars

(***************************************************************************)
(* AuthManager of p2p.rs: users, tokens and sessions. A permission grant   *)
(* is a name, Files grants being on the path "/"; user names arrive        *)
(* trimmed; a token's id and secret are fresh numbers; the hash of a       *)
(* password is the pair of salt and password.                              *)
(***************************************************************************)
OWNER_ROLE == "owner"
VIEWER_ROLE == "viewer"

Capabilities == {"FileRead", "FileWrite", "System", "Disks", "Network"}

\* Capability::is_read_only
is_read_only(capability) == capability # "FileWrite"

\* PermissionGrant::allows
grant_allows(grant, capability) ==
    CASE grant = "Owner" -> TRUE
      [] grant = "Viewer" -> is_read_only(capability)
      [] grant = "FilesRead" -> capability = "FileRead"
      [] grant = "FilesReadWrite" -> capability \in {"FileRead", "FileWrite"}
      [] grant = "SystemInfo" -> capability = "System"
      [] grant = "DiskInfo" -> capability = "Disks"
      [] grant = "NetworkInfo" -> capability = "Network"

\* SessionRecord::allows, of any set of grants
permissions_allow(permissions, capability) ==
    \E grant \in permissions : grant_allows(grant, capability)

\* expires_at.map(|exp| exp <= now).unwrap_or(false)
is_expired(expires_at, now) == expires_at # None /\ expires_at[1] <= now

\* default_permissions_for_roles
default_permissions_for_roles(roles) ==
    IF OWNER_ROLE \in roles THEN {"Owner"}
    ELSE IF VIEWER_ROLE \in roles
    THEN {"Viewer", "SystemInfo", "DiskInfo", "NetworkInfo", "FilesRead"}
    ELSE {}

\* normalize_role: trimmed and lower-cased
normalize_role(role) ==
    CASE role = "Owner " -> "owner"
      [] role = "VIEWER" -> "viewer"
      [] role = " " -> ""
      [] OTHER -> role

\* hash_password
hash_password(salt, password) == << salt, password >>

\* verify_password
verify_password(salt, password, expected_hash) ==
    hash_password(salt, password) = expected_hash

\* AuthManager::final_permissions
final_permissions(explicit, roles) ==
    IF explicit = {} THEN default_permissions_for_roles(roles) ELSE explicit

\* AuthManager::default
AuthDefault == [users |-> <<>>, tokens |-> <<>>, tokens_by_secret |-> <<>>, sessions |-> <<>>]

\* HashMap::insert and HashMap::remove of a set of keys
map_insert(m, k, v) == [x \in DOMAIN m \cup {k} |-> IF x = k THEN v ELSE m[x]]
map_remove(m, ks) == [x \in DOMAIN m \ ks |-> m[x]]

\* a response with its tag and reason, and the manager after the request
AuthRes(am, tag, reason) == [am |-> am, tag |-> tag, reason |-> reason]

\* the test purge_expired and refresh_sessions_for make of a token id
token_stale(am, now, token_id) ==
    \/ token_id \notin DOMAIN am.tokens
    \/ am.tokens[token_id].revoked
    \/ is_expired(am.tokens[token_id].expires_at, now)

\* AuthManager::purge_expired
purge_expired(am, now) ==
    [am EXCEPT
       !.tokens_by_secret =
          map_remove(@, {s \in DOMAIN @ : token_stale(am, now, @[s])}),
       !.sessions =
          map_remove(@, {p \in DOMAIN @ :
                            \/ is_expired(@[p].expires_at, now)
                            \/ (@[p].token_id # None
                                /\ token_stale(am, now, @[p].token_id[1]))})]

\* AuthManager::ensure_authenticated
ensure_authenticated(am, now, peer) ==
    IF peer \in DOMAIN am.sessions /\ ~is_expired(am.sessions[peer].expires_at, now)
    THEN [ok |-> TRUE, session |-> am.sessions[peer], am |-> am, reason |-> ""]
    ELSE IF peer \in DOMAIN am.sessions
    THEN [ok |-> FALSE, session |-> Nil,
          am |-> [am EXCEPT !.sessions = map_remove(@, {peer})],
          reason |-> "Session expired"]
    ELSE [ok |-> FALSE, session |-> Nil, am |-> am, reason |-> "Peer not authenticated"]

\* AuthManager::ensure_owner
ensure_owner(am, now, peer) ==
    LET a == ensure_authenticated(am, now, peer) IN
    IF ~a.ok THEN a
    ELSE IF OWNER_ROLE \in a.session.roles THEN a
    ELSE [a EXCEPT !.ok = FALSE, !.reason = "Owner role required"]

\* AuthManager::store_session
store_session(am, peer, session) ==
    [am EXCEPT !.sessions = map_insert(@, peer, session)]

\* AuthManager::authenticate_token
authenticate_token(am0, now, peer, token) ==
    LET am == purge_expired(am0, now) IN
    IF token \notin DOMAIN am.tokens_by_secret
    THEN AuthRes(am, "AuthFailure", "Invalid or expired token")
    ELSE LET token_id == am.tokens_by_secret[token]
             forgotten == [am EXCEPT !.tokens_by_secret = map_remove(@, {token})]
         IN IF token_id \notin DOMAIN am.tokens
            THEN AuthRes(forgotten, "AuthFailure", "Invalid or expired token")
            ELSE LET record == am.tokens[token_id] IN
                 IF record.revoked THEN AuthRes(forgotten, "AuthFailure", "Token revoked")
                 ELSE IF is_expired(record.expires_at, now)
                 THEN AuthRes(forgotten, "AuthFailure", "Token expired")
                 ELSE IF record.username \notin DOMAIN am.users
                 THEN AuthRes(am, "AuthFailure", "Token references missing user")
                 ELSE AuthRes(store_session(am, peer,
                                 [username |-> record.username,
                                  roles |-> am.users[record.username].roles,
                                  permissions |-> record.permissions,
                                  expires_at |-> record.expires_at,
                                  token_id |-> Some(record.id)]),
                              "AuthSuccess", "")

\* AuthManager::authenticate_credentials
authenticate_credentials(am, now, peer, username, password) ==
    IF username \notin DOMAIN am.users THEN AuthRes(am, "AuthFailure", "Unknown user")
    ELSE LET user == am.users[username] IN
         IF ~verify_password(user.salt, password, user.password_hash)
         THEN AuthRes(am, "AuthFailure", "Invalid credentials")
         ELSE AuthRes(store_session(am, peer,
                         [username |-> username,
                          roles |-> user.roles,
                          permissions |-> user.permissions,
                          expires_at |-> Some(now + DEFAULT_SESSION_TTL),
                          token_id |-> None]),
                      "AuthSuccess", "")

\* AuthManager::authenticate
authenticate(am, now, peer, method) ==
    IF method.kind = "Token" THEN authenticate_token(am, now, peer, method.token)
    ELSE authenticate_credentials(am, now, peer, method.username, method.password)

\* AuthManager::create_user
auth_create_user(am, now, peer, username, password, roles, permissions) ==
    LET bootstrap == DOMAIN am.users = {}
        owner == ensure_owner(am, now, peer)
        normalized == {normalize_role(role) : role \in roles} \ {""}
        with_owner == IF bootstrap THEN normalized \cup {OWNER_ROLE} ELSE normalized
        role_set == IF with_owner = {} THEN {VIEWER_ROLE} ELSE with_owner
    IN IF username = "" THEN AuthRes(am, "Error", "Username cannot be empty")
       ELSE IF password = "" THEN AuthRes(am, "Error", "Password cannot be empty")
       ELSE IF ~bootstrap /\ ~owner.ok THEN AuthRes(owner.am, "AuthFailure", owner.reason)
       ELSE IF username \in DOMAIN am.users THEN AuthRes(am, "Error", "User already exists")
       ELSE AuthRes([am EXCEPT !.users =
                        map_insert(@, username,
                           [username |-> username,
                            password_hash |-> hash_password(username, password),
                            salt |-> username,
                            roles |-> role_set,
                            permissions |-> final_permissions(permissions, role_set),
                            tokens |-> {}])],
                    "UserCreated", "")

\* AuthManager::create_token; fresh is the new token's id and secret
create_token(am, now, peer, username, expires_in, permissions, fresh) ==
    LET a == ensure_authenticated(am, now, peer) IN
    IF ~a.ok THEN AuthRes(a.am, "AuthFailure", a.reason)
    ELSE IF a.session.username # username /\ OWNER_ROLE \notin a.session.roles
    THEN AuthRes(am, "AuthFailure", "Owner role required to issue tokens for other users")
    ELSE IF username \notin DOMAIN am.users THEN AuthRes(am, "Error", "User not found")
    ELSE LET permission_set == IF permissions = {} THEN am.users[username].permissions
                               ELSE permissions
             record == [id |-> fresh, secret |-> fresh, username |-> username,
                        permissions |-> permission_set,
                        expires_at |-> IF expires_in = None THEN None
                                       ELSE Some(now + expires_in[1]),
                        revoked |-> FALSE,
                        issued_by |-> a.session.username]
         IN AuthRes([am EXCEPT !.tokens_by_secret = map_insert(@, fresh, fresh),
                               !.tokens = map_insert(@, fresh, record),
                               !.users[username].tokens = @ \cup {fresh}],
                    "TokenIssued", "")

\* AuthManager::refresh_sessions_for
refresh_sessions_for(am, now, username) ==
    IF username \notin DOMAIN am.users
    THEN [am EXCEPT !.sessions =
             map_remove(@, {p \in DOMAIN @ : @[p].username = username})]
    ELSE LET user == am.users[username]
             mine == {p \in DOMAIN am.sessions : am.sessions[p].username = username}
             stale == {p \in mine : /\ am.sessions[p].token_id # None
                                    /\ token_stale(am, now, am.sessions[p].token_id[1])}
             refreshed(s) ==
                 IF s.token_id = None
                 THEN [s EXCEPT !.roles = user.roles, !.permissions = user.permissions]
                 ELSE [s EXCEPT !.roles = user.roles,
                                !.permissions = am.tokens[s.token_id[1]].permissions,
                                !.expires_at = am.tokens[s.token_id[1]].expires_at]
         IN [am EXCEPT !.sessions =
                [p \in DOMAIN @ \ stale |-> IF p \in mine THEN refreshed(@[p]) ELSE @[p]]]

\* AuthManager::grant_access
grant_access(am, now, peer, username, permissions, merge) ==
    LET owner == ensure_owner(am, now, peer) IN
    IF ~owner.ok THEN AuthRes(owner.am, "AuthFailure", owner.reason)
    ELSE IF username \notin DOMAIN am.users THEN AuthRes(am, "Error", "User not found")
    ELSE LET user == am.users[username]
             updated_permissions ==
                 IF merge THEN user.permissions \cup permissions
                 ELSE IF permissions = {} THEN default_permissions_for_roles(user.roles)
                 ELSE permissions
             granted == [am EXCEPT !.users[username].permissions = updated_permissions]
         IN AuthRes(purge_expired(refresh_sessions_for(granted, now, username), now),
                    "AccessGranted", "")

\* AuthManager::list_users
list_users(am, now, peer) ==
    LET owner == ensure_owner(am, now, peer) IN
    IF DOMAIN am.users = {} THEN AuthRes(am, "Users", "")
    ELSE IF ~owner.ok THEN AuthRes(owner.am, "AuthFailure", owner.reason)
    ELSE AuthRes(am, "Users", "")

\* AuthManager::list_tokens
list_tokens(am, now, peer, username) ==
    LET a == ensure_authenticated(am, now, peer) IN
    IF ~a.ok THEN AuthRes(a.am, "AuthFailure", a.reason)
    ELSE IF username # None /\ username[1] # a.session.username
            /\ OWNER_ROLE \notin a.session.roles
    THEN AuthRes(am, "AuthFailure", "Owner role required to inspect other users' tokens")
    ELSE AuthRes(am, "Tokens", "")

\* a revoke_token that leaves the sessions made from the token
revoke_token_keeps_sessions(am, now, peer, token_id) ==
    LET a == ensure_authenticated(am, now, peer) IN
    IF ~a.ok THEN AuthRes(a.am, "AuthFailure", a.reason)
    ELSE IF token_id \notin DOMAIN am.tokens THEN AuthRes(am, "Error", "Token not found")
    ELSE IF am.tokens[token_id].username # a.session.username
            /\ OWNER_ROLE \notin a.session.roles
    THEN AuthRes(am, "AuthFailure", "Owner role required to revoke other users' tokens")
    ELSE AuthRes([am EXCEPT !.tokens[token_id].revoked = TRUE,
                            !.tokens_by_secret = map_remove(@, {am.tokens[token_id].secret})],
                 "TokenRevoked", "")

\* AuthManager::revoke_token
revoke_token(am, now, peer, token_id) ==
    LET a == ensure_authenticated(am, now, peer) IN
    IF ~a.ok THEN AuthRes(a.am, "AuthFailure", a.reason)
    ELSE IF token_id \notin DOMAIN am.tokens THEN AuthRes(am, "Error", "Token not found")
    ELSE IF am.tokens[token_id].username # a.session.username
            /\ OWNER_ROLE \notin a.session.roles
    THEN AuthRes(am, "AuthFailure", "Owner role required to revoke other users' tokens")
    ELSE AuthRes([am EXCEPT !.tokens[token_id].revoked = TRUE,
                            !.tokens_by_secret = map_remove(@, {am.tokens[token_id].secret}),
                            !.sessions = map_remove(@, {p \in DOMAIN @ :
                                                           @[p].token_id = Some(token_id)})],
                 "TokenRevoked", "")

\* AuthManager::revoke_user
revoke_user(am, now, peer, username) ==
    LET owner == ensure_owner(am, now, peer) IN
    IF ~owner.ok THEN AuthRes(owner.am, "AuthFailure", owner.reason)
    ELSE IF username \notin DOMAIN am.users THEN AuthRes(am, "Error", "User not found")
    ELSE LET gone == am.users[username].tokens \cap DOMAIN am.tokens IN
         AuthRes([am EXCEPT !.users = map_remove(@, {username}),
                            !.tokens = map_remove(@, gone),
                            !.tokens_by_secret =
                               map_remove(@, {am.tokens[t].secret : t \in gone}),
                            !.sessions = map_remove(@, {p \in DOMAIN @ :
                                                           @[p].username = username})],
                 "UserRemoved", "")

\* AuthManager::logout
logout(am, peer) == [am EXCEPT !.sessions = map_remove(@, {peer})]

\* AuthManager::handle_control_request
handle_control_request(am0, now, peer, request, fresh) ==
    LET am == purge_expired(am0, now) IN
    CASE request.tag = "Authenticate" -> authenticate(am, now, peer, request.method)
      [] request.tag = "CreateUser" ->
            auth_create_user(am, now, peer, request.username, request.password,
                             request.roles, request.permissions)
      [] request.tag = "CreateToken" ->
            create_token(am, now, peer, request.username, request.expires_in,
                         request.permissions, fresh)
      [] request.tag = "GrantAccess" ->
            grant_access(am, now, peer, request.username, request.permissions,
                         request.merge)
      [] request.tag = "ListUsers" -> list_users(am, now, peer)
      [] request.tag = "ListTokens" -> list_tokens(am, now, peer, request.filter)
      [] request.tag = "RevokeToken" -> revoke_token(am, now, peer, request.token_id)
      [] request.tag = "RevokeUser" -> revoke_user(am, now, peer, request.username)

(***************************************************************************)
(* SpecAuth: control requests of two peers handled by an AuthManager that  *)
(* starts empty, with the clock advancing between requests.                *)
(***************************************************************************)
AuthPeers == {"p1", "p2"}
AuthNames == {"o", "v"}
AuthMethods ==
    {[kind |-> "Token", token |-> t] : t \in 1..MaxTokens}
    \cup {[kind |-> "Credentials", username |-> "o", password |-> pw] : pw \in {"pw", "bad"}}
    \cup {[kind |-> "Credentials", username |-> "v", password |-> "pw"]}
AuthReqs ==
    {[tag |-> "Authenticate", method |-> m] : m \in AuthMethods}
    \cup {[tag |-> "CreateUser", username |-> n, password |-> "pw", roles |-> {},
           permissions |-> {}] : n \in AuthNames \cup {""}}
    \cup {[tag |-> "CreateUser", username |-> "v", password |-> "", roles |-> {" "},
           permissions |-> {"FilesRead"}],
          [tag |-> "CreateUser", username |-> "v", password |-> "pw", roles |-> {"Owner "},
           permissions |-> {}]}
    \cup {[tag |-> "CreateToken", username |-> n, expires_in |-> None, permissions |-> p] :
             n \in AuthNames, p \in {{}, {"Owner"}}}
    \cup {[tag |-> "CreateToken", username |-> "v", expires_in |-> Some(1),
           permissions |-> {}]}
    \cup {[tag |-> "GrantAccess", username |-> "v", permissions |-> {"FilesReadWrite"},
           merge |-> TRUE],
          [tag |-> "GrantAccess", username |-> "v", permissions |-> {}, merge |-> FALSE]}
    \cup {[tag |-> "ListUsers"]}
    \cup {[tag |-> "ListTokens", filter |-> u] : u \in {None, Some("o")}}
    \cup {[tag |-> "RevokeToken", token_id |-> t] : t \in 1..MaxTokens}
    \cup {[tag |-> "RevokeUser", username |-> n] : n \in AuthNames}

InitAuth ==
    /\ ActorIdle
    /\ inbound = <<>>
    /\ state = AuthDefault
    /\ fs = BaseFs
    /\ hist = [now |-> 0, next_token |-> 1, revoked |-> {}, reqs |-> 0]
    /\ fn_in = Nil
    /\ fn_out = Nil

AuthUnchanged ==
    UNCHANGED << actor, cur, rx, pending_requests, next_request_id, oneshot,
                 shutdown_tx, inbound, fs >>

\* the secrets a request takes out of use when it succeeds
revoked_by(am, request, tag) ==
    IF tag = "TokenRevoked" THEN {am.tokens[request.token_id].secret}
    ELSE IF tag = "UserRemoved"
    THEN {am.tokens[t].secret : t \in am.users[request.username].tokens \cap DOMAIN am.tokens}
    ELSE {}

\* one control request handled by handle_control_request
ControlRequest(peer, request) ==
    \E r \in {handle_control_request(state, hist.now, peer, request, hist.next_token)} :
    /\ hist.reqs < MaxAuthReqs
    /\ request.tag = "CreateToken" => hist.next_token <= MaxTokens
    /\ state' = r.am
    /\ hist' = [hist EXCEPT !.next_token = IF r.tag = "TokenIssued" THEN @ + 1 ELSE @,
                            !.revoked = @ \cup revoked_by(state, request, r.tag),
                            !.reqs = @ + 1]
    /\ fn_in' = Nil
    /\ fn_out' = [tag |-> r.tag]
    /\ AuthUnchanged

\* now_timestamp moves on
AuthTick ==
    /\ hist.now < AuthMaxTime
    /\ hist' = [hist EXCEPT !.now = @ + 1]
    /\ UNCHANGED << state, fn_in, fn_out >>
    /\ AuthUnchanged

\* AuthManager::logout of a peer with a session
AuthLogout(peer) ==
    /\ peer \in DOMAIN state.sessions
    /\ state' = logout(state, peer)
    /\ fn_in' = Nil
    /\ fn_out' = [tag |-> "none"]
    /\ UNCHANGED hist
    /\ AuthUnchanged

NextAuth ==
    \/ \E peer \in AuthPeers, request \in AuthReqs : ControlRequest(peer, request)
    \/ AuthTick
    \/ \E peer \in AuthPeers : AuthLogout(peer)

SpecAuth == InitAuth /\ [][NextAuth]_vars

(***************************************************************************)
(* SpecReq: the Request arm of handle_agent_event on every PeerReq variant, *)
(* with the request and what was sent back recorded.                        *)
(***************************************************************************)
ReqSet ==
    ActorReqs
    \cup {[tag |-> "CreateUser", username |-> "v", password |-> "pw"],
          [tag |-> "CreateToken", username |-> "v"]}

InitReq ==
    /\ ActorIdle
    /\ state = DefaultState
    /\ fs = BaseFs
    /\ hist = [reqs |-> 0]
    /\ fn_in = Nil
    /\ fn_out = Nil

\* the Request arm of handle_agent_event, the handler run to its end:
\* send_response with its result or with Error("Internal error"); a panic
\* unwinds the task before anything is sent
ReqRequest(peer, req) ==
    LET outcome == handle_puppy_peer_req(state, fs, peer, req) IN
    /\ actor = "running"
    /\ hist.reqs < MaxReqs
    /\ hist' = [hist EXCEPT !.reqs = @ + 1]
    /\ fn_in' = [peer |-> peer, req |-> req, st |-> state]
    /\ fn_out' = [kind |-> outcome.kind,
                  sent |-> IF outcome.kind = "Panic" THEN None
                           ELSE Some(response_for(outcome))]
    /\ actor' = IF outcome.kind = "Panic" THEN "panicked" ELSE actor
    /\ state' = outcome.st
    /\ fs' = outcome.fs
    /\ UNCHANGED << cur, rx, pending_requests, next_request_id, oneshot,
                    shutdown_tx, inbound >>

NextReq == \E peer \in RemotePeers, req \in ReqSet : ReqRequest(peer, req)

SpecReq == InitReq /\ [][NextReq]_vars

(***************************************************************************)
(* SpecPoison: inbound requests of a remote peer on a node that shares a   *)
(* folder read-write, whose State mutex becomes poisoned when a thread of  *)
(* the embedding program panics with the guard in hand.                    *)
(***************************************************************************)
InitPoison ==
    /\ ActorIdle
    /\ inbound = <<>>
    /\ state = [me |-> Me,
                shared_folders |-> << FolderRule(<< "pub" >>, WRITE_ACCESS) >>,
                relationships |-> <<>>, users |-> <<>>, poisoned |-> FALSE]
    /\ fs = BaseFs
    /\ hist = [reqs |-> 0]
    /\ fn_in = Nil
    /\ fn_out = Nil

\* a holder of the Arc<Mutex<State>> panics under the lock
PoisonState ==
    /\ ~state.poisoned
    /\ state' = [state EXCEPT !.poisoned = TRUE]
    /\ UNCHANGED << actor, cur, rx, pending_requests, next_request_id, oneshot,
                    shutdown_tx, inbound, fs, hist, fn_in, fn_out >>

NextPoison ==
    \/ PoisonState
    \/ \E peer \in RemotePeers, req \in ReqSet : ReqRequest(peer, req)

SpecPoison == InitPoison /\ [][NextPoison]_vars

(***************************************************************************)
(* SpecIo: ReadFile and WriteFile requests of a remote peer on a folder     *)
(* shared read-write, over file lengths, offsets up to the largest word and *)
(* files whose reads come back short.                                       *)
(***************************************************************************)
IoData(n) == [i \in 1..n |-> i]
IoFs(n, k) ==
    (<<>> :> Dir) @@ (<< "pub" >> :> Dir) @@ (<< "pub", "a" >> :> ShortFile(IoData(n), k))
IoPaths == {<< "pub", "a" >>, << "pub", "new" >>}
IoOffsets == {0, 1, U64_MAX}
IoLengths == {None} \cup {Some(l) : l \in {0, 1, 2}}
IoWrites == {<< 9 >>, << 9, 8 >>, << 9, 8, 7 >>}
IoReadReqs ==
    {[tag |-> "ReadFile", path |-> p, offset |-> o, length |-> l]
     : p \in IoPaths, o \in IoOffsets, l \in IoLengths}
IoWriteReqs ==
    {[tag |-> "WriteFile", path |-> p, offset |-> o, data |-> d]
     : p \in IoPaths, o \in IoOffsets, d \in IoWrites}

\* /pub holds one file and was shared with share_read_write_folder
InitIo ==
    /\ ActorIdle
    /\ \E n \in 0..MaxFileLen, k \in 0..MaxShort : fs = IoFs(n, k)
    /\ state = share_read_write_folder(DefaultState, fs, << "pub" >>)
    /\ hist = [reqs |-> 0, wrote |-> Nil]
    /\ fn_in = Nil
    /\ fn_out = Nil

\* the Request arm of handle_agent_event for one inbound ReadFile
IoRead(peer, req) ==
    \E outcome \in {handle_puppy_peer_req(state, fs, peer, req)} :
    /\ hist.reqs < MaxIoReqs
    /\ hist' = [reqs |-> hist.reqs + 1, wrote |-> Nil]
    /\ fn_in' = [peer |-> peer, req |-> req, wrote |-> hist.wrote]
    /\ fn_out' = [kind |-> outcome.kind, res |-> response_for(outcome)]
    /\ state' = outcome.st
    /\ fs' = outcome.fs
    /\ UNCHANGED << actor, cur, rx, pending_requests, next_request_id, oneshot,
                    shutdown_tx, inbound >>

\* the Request arm of handle_agent_event for one inbound WriteFile; wrote
\* remembers an acknowledged write and the length the file had before it
IoWrite(peer, req) ==
    \E outcome \in {handle_puppy_peer_req(state, fs, peer, req)} :
    /\ hist.reqs < MaxIoReqs
    /\ hist' = [reqs |-> hist.reqs + 1,
                wrote |-> IF outcome.kind = "Ok" /\ outcome.res.tag = "WriteAck"
                          THEN [req |-> req,
                                old_len |-> IF req.path \in DOMAIN fs
                                            THEN Len(fs[req.path].data) ELSE 0]
                          ELSE Nil]
    /\ fn_in' = [peer |-> peer, req |-> req, wrote |-> Nil]
    /\ fn_out' = [kind |-> outcome.kind, res |-> response_for(outcome)]
    /\ state' = outcome.st
    /\ fs' = outcome.fs
    /\ UNCHANGED << actor, cur, rx, pending_requests, next_request_id, oneshot,
                    shutdown_tx, inbound >>

NextIo ==
    \/ \E peer \in RemotePeers, req \in IoReadReqs : IoRead(peer, req)
    \/ \E peer \in RemotePeers, req \in IoWriteReqs : IoWrite(peer, req)

SpecIo == InitIo /\ [][NextIo]_vars

(***************************************************************************)
(* SpecDir: collect_dir_entries on a directory of files and directories    *)
(* whose names differ in case.                                             *)
(***************************************************************************)
DirNames == {"a", "A", "b", "B", "s"}
DirListed == << "pub" >>

\* /pub holding the names of S, each a directory or an empty file by t
DirFs(S, t) ==
    (<<>> :> Dir) @@ (DirListed :> Dir)
      @@ [p \in {DirListed \o << n >> : n \in S} |->
             IF t[p[Len(p)]] = "dir" THEN Dir ELSE File(<<>>)]

InitDir ==
    /\ ActorIdle
    /\ \E S \in SUBSET DirNames :
          /\ Cardinality(S) <= MaxEntries
          /\ \E t \in [S -> {"file", "dir"}] : fs = DirFs(S, t)
    /\ state = DefaultState
    /\ hist = Nil
    /\ fn_in = Nil
    /\ fn_out = Nil

\* one call of collect_dir_entries
DirList(path) ==
    /\ fn_in' = [path |-> path]
    /\ fn_out' = collect_dir_entries(fs, path)
    /\ UNCHANGED << actor, cur, rx, pending_requests, next_request_id, oneshot,
                    shutdown_tx, inbound, state, fs, hist >>

NextDir == \E path \in {DirListed} : DirList(path)

SpecDir == InitDir /\ [][NextDir]_vars

(***************************************************************************)
(* Properties of the ACL and of the file request handlers.                 *)
(***************************************************************************)
\* flags holds every bit of access
FlagsSuperset(flags, access) ==
    \A bit \in {FLAG_READ, FLAG_WRITE, FLAG_EXECUTE, FLAG_SEARCH} :
        HasBit(access, bit) => HasBit(flags, bit)

\* base is path cut after some number of whole components
IsPrefix(base, path) ==
    \E k \in 0..Len(path) : base = [i \in 1..k |-> path[i]]

\* the relationship rules that apply to src
RulesFor(st, src) ==
    UNION {{st.relationships[i].rules[j] : j \in DOMAIN st.relationships[i].rules}
           : i \in {k \in DOMAIN st.relationships :
                       \/ st.relationships[k].src = src
                       \/ st.relationships[k].target = src}}

\* the folder rules that can grant src an access: every shared folder and
\* the Folder rules of the relationships naming src
FolderRulesFor(st, src) ==
    {st.shared_folders[i] : i \in DOMAIN st.shared_folders}
    \cup {r.rule.folder : r \in {x \in RulesFor(st, src) : x.rule.kind = "Folder"}}

\* some folder rule has path under it and grants access
GrantedByRule(st, src, path, access) ==
    \E r \in FolderRulesFor(st, src) :
        IsPrefix(r.path, path) /\ FlagsSuperset(r.flags, access)

HasOwnerRule(st, src) == \E r \in RulesFor(st, src) : r.rule.kind = "Owner"

RuleMatches(r, path, access) ==
    \/ r.rule.kind = "Owner"
    \/ /\ r.rule.kind = "Folder"
       /\ IsPrefix(r.rule.folder.path, path)
       /\ FlagsSuperset(r.rule.folder.flags, access)

Expired(r, now) == r.expires_at # None /\ r.expires_at[1] < now

ReadTags == {"ListDir", "StatFile", "ReadFile"}

\* C3: for an inbound ListDir, StatFile or ReadFile the path handed to
\* has_fs_access is the canonical form of the submitted path, and a remote
\* peer whose canonical target lies under no granting rule is answered
\* Error("Access denied"), with no content, whatever the submitted string
\* begins with.
Thm_C3 ==
    (fn_out # Nil /\ fn_in.req.tag \in ReadTags)
        => LET c == canonicalize(fn_in.fs, fn_in.req.path) IN
           /\ fn_out.acl_path # None
                 => (c.ok /\ fn_out.acl_path = Some(c.path))
           /\ (/\ c.ok
               /\ fn_in.peer # fn_in.st.me
               /\ ~GrantedByRule(fn_in.st, fn_in.peer, c.path, READ_ACCESS))
                 => fn_out.res = ErrorRes("Access denied")

\* /pub is shared and /pub/../secret/s is asked for: denied
Wit_C3 ==
    /\ fn_out # Nil
    /\ fn_in.req.tag = "ReadFile"
    /\ fn_in.req.path = << "pub", "..", "secret", "s" >>
    /\ \E i \in DOMAIN fn_in.st.shared_folders :
           /\ fn_in.st.shared_folders[i].path = << "pub" >>
           /\ IsPrefix(fn_in.st.shared_folders[i].path, fn_in.req.path)
    /\ fn_out.res = ErrorRes("Access denied")

\* the folders were shared by share_read_only_folder alone
OnlyReadOnlyShares(shares) == \A i \in DOMAIN shares : shares[i] = "ro"

\* the path of a WriteFile names an existing node, or a final name in an
\* existing directory
WriteResolves(f, p) ==
    \/ metadata(f, p)
    \/ /\ p # <<>>
       /\ p[Len(p)] # ".."
       /\ canonicalize(f, SubSeq(p, 1, Len(p) - 1)).ok

\* C5 as stated: after share_read_only_folder calls and no other grant,
\* every WriteFile of a remote peer is answered Error("Access denied") and
\* changes no file.
Cex_C5 ==
    (/\ fn_out # Nil
     /\ fn_in.req.tag = "WriteFile"
     /\ fn_in.peer # fn_in.st.me
     /\ OnlyReadOnlyShares(fn_in.shares))
        => (fn_out.res = ErrorRes("Access denied") /\ fs = fn_in.fs)

\* C5 amended: after share_read_only_folder calls and no other grant, every
\* WriteFile of a remote peer is answered with an Error response and changes
\* no file; the error is "Access denied" whenever the path resolves to a
\* target (an existing node, or a final name in an existing directory).
Thm_C5 ==
    (/\ fn_out # Nil
     /\ fn_in.req.tag = "WriteFile"
     /\ fn_in.peer # fn_in.st.me
     /\ OnlyReadOnlyShares(fn_in.shares))
        => /\ fn_out.res.tag = "Error"
           /\ fs = fn_in.fs
           /\ WriteResolves(fn_in.fs, fn_in.req.path)
                 => fn_out.res = ErrorRes("Access denied")

\* /pub is shared read-only and a write to /pub/new is denied
Wit_C5 ==
    /\ fn_out # Nil
    /\ fn_in.req.tag = "WriteFile"
    /\ fn_in.req.path = << "pub", "new" >>
    /\ fn_in.shares = << "ro" >>
    /\ fn_in.st.shared_folders = << FolderRule(<< "pub" >>, READ_ACCESS) >>
    /\ fn_out.res = ErrorRes("Access denied")
    /\ << "pub", "new" >> \notin DOMAIN fs

\* the paths created, removed or modified between two filesystems
Changed(f, g) ==
    {p \in DOMAIN f \cup DOMAIN g :
        p \notin DOMAIN f \/ p \notin DOMAIN g \/ f[p] # g[p]}

\* C6: for an inbound WriteFile whose target does not exist, every file the
\* handler creates or modifies lies under a rule granting READ|WRITE|SEARCH
\* to the requester, also when the final component is a symbolic link whose
\* target does not exist.
Cex_C6 ==
    (/\ fn_out # Nil
     /\ fn_in.req.tag = "WriteFile"
     /\ fn_in.peer # fn_in.st.me
     /\ ~metadata(fn_in.fs, fn_in.req.path))
        => \A p \in Changed(fn_in.fs, fs) :
               GrantedByRule(fn_in.st, fn_in.peer, p, WRITE_ACCESS)

(***************************************************************************)
(* Properties of the actor.                                                 *)
(***************************************************************************)
\* the inbound request i has a handler that is suspended now
Suspended(i) == cur # Nil /\ cur.kind = "req" /\ cur.i = i
\* the handler of the inbound request i was dropped by the shutdown branch
Cancelled(i) == hist.cancelled # Nil /\ hist.cancelled.kind = "req" /\ hist.cancelled.i = i

\* C1: every inbound request whose handler is not suspended and was not
\* dropped by the shutdown branch has had send_response called on its
\* channel exactly once; no request has had it called twice.
Cex_C1 ==
    \A i \in DOMAIN inbound :
        IF Suspended(i) \/ Cancelled(i)
        THEN inbound[i] = 0
        ELSE inbound[i] = 1

\* the facade call that issued the outbound request id
CallOf(request_id) == hist.issued[request_id]
Resolved(call) == oneshot[call] \in {"Ok", "Err:remote", "Err:unexpected response",
                                     "Err:request failed", "Err:replaced", "closed"}

\* C2: for every outbound request id a remote facade call registered, once
\* the actor has handled a Response or OutboundFailure event for the id, or
\* once the actor is no longer running, the caller's one-shot holds a
\* decoded value or an error, or is closed; once the actor is no longer
\* running no call at all is pending.
Thm_C2 ==
    /\ \A request_id \in DOMAIN hist.issued :
          (request_id \in hist.terminal \/ actor # "running")
              => Resolved(CallOf(request_id))
    /\ actor # "running" => \A c \in DOMAIN oneshot : oneshot[c] # "pending"

\* a remote call resolved by its event, another one by the actor stopping
Wit_C2 ==
    \E r1, r2 \in DOMAIN hist.issued :
        /\ r1 \in hist.terminal
        /\ r2 \notin hist.terminal
        /\ actor = "stopped"
        /\ oneshot[CallOf(r1)] \in {"Ok", "Err:request failed"}
        /\ oneshot[CallOf(r2)] = "closed"

\* the number of times the waiter of request_id was completed or dropped
Completions(request_id) ==
    hist.done[request_id] + (IF request_id \in hist.dropped THEN 1 ELSE 0)

\* an event was handled for an id that already had a terminal event
RepeatedEventStep == hist'.events > hist.events /\ hist'.terminal = hist.terminal

\* C8: for every outbound request id the waiter is completed by a matched
\* response, failed by an outbound failure or dropped at shutdown at most
\* once in total, no id with a handled terminal event is still in the
\* table, and a repeated event for an id changes neither the table nor any
\* one-shot.
Thm_C8 ==
    /\ [](\A request_id \in DOMAIN hist.issued :
            /\ Completions(request_id) <= 1
            /\ request_id \in hist.terminal => request_id \notin DOMAIN pending_requests)
    /\ [][RepeatedEventStep =>
            (pending_requests' = pending_requests /\ oneshot' = oneshot)]_vars

\* two events were handled for one id, whose waiter was completed once
Wit_C8 ==
    \E request_id \in DOMAIN hist.issued :
        /\ hist.events >= 2
        /\ hist.terminal = {request_id}
        /\ Completions(request_id) = 1

\* the step in which the task ends by the shutdown branch
ShutdownStep == actor = "running" /\ actor' = "stopped"

\* C9: under FairSpec, once the shutdown signal is sent the actor stops
\* running, also when a handler is suspended; when it stops, every call
\* whose sender was in the table, in the queue or in the suspended handler
\* and was still pending sees its channel closed; and after the actor has
\* stopped the table and the queue are empty and no call is pending.
Thm_C9 ==
    /\ (shutdown_tx = "sent") ~> (actor # "running")
    /\ [][ShutdownStep =>
            \A c \in senders(pending_requests, rx, cur) :
                oneshot[c] = "pending" => oneshot'[c] = "closed"]_vars
    /\ [](actor # "running" =>
            /\ pending_requests = <<>>
            /\ rx = <<>>
            /\ \A c \in DOMAIN oneshot : oneshot[c] # "pending")

\* the actor stopped while a handler was suspended and a waiter was in
\* the table; two calls saw their channel closed
Wit_C9 ==
    /\ actor = "stopped"
    /\ hist.cancelled # Nil
    /\ hist.dropped # {}
    /\ Cardinality({c \in DOMAIN oneshot : oneshot[c] = "closed"}) >= 2

\* C10: commands start in the order they were sent (command ids count the
\* sends), each one finishes before the next one starts, and the only
\* command started and not finished is the one whose handler is suspended
\* or was dropped by the shutdown branch.
Thm_C10 ==
    /\ hist.started = [k \in 1..Len(hist.started) |-> k]
    /\ Len(hist.finished) <= Len(hist.started)
    /\ Len(hist.started) <= Len(hist.finished) + 1
    /\ hist.finished = SubSeq(hist.started, 1, Len(hist.finished))
    /\ Len(hist.started) > Len(hist.finished) =>
          LET last == hist.started[Len(hist.started)] IN
          \/ (cur # Nil /\ cur.kind = "cmd" /\ cur.cmd.id = last)
          \/ (hist.cancelled # Nil /\ hist.cancelled.kind = "cmd"
              /\ hist.cancelled.cmd.id = last)

\* two commands were handled to the end in a run in which a Response or
\* OutboundFailure event and an inbound request were handled too
Wit_C10 ==
    /\ Len(hist.finished) >= 2
    /\ hist.events >= 1
    /\ inbound # <<>>

\* the step in which select takes the command at the head of the queue
TakeStep == actor = "running" /\ cur = Nil /\ rx # <<>> /\ Len(hist'.started) > Len(hist.started)
\* the step in which a suspended command handler is resumed
ResumeStep == actor = "running" /\ cur # Nil /\ cur.kind = "cmd"
                 /\ Len(hist'.finished) > Len(hist.finished)
LocalReplies == {"Ok", "Err:io"}

Delivered == oneshot[fn_in.waiter[1].call]

\* C12: when an event finds a waiter, the caller receives Err(msg) for a
\* Response carrying Error(msg), an error for a Response of a variant other
\* than the one the waiter decodes, and an error for an OutboundFailure; it
\* receives Ok only for a Response of the variant the waiter decodes.
Thm_C12 ==
    (fn_in # Nil /\ fn_in.waiter # None) =>
        LET ty == fn_in.waiter[1].ty IN
        IF fn_in.event = "OutboundFailure" THEN Delivered = "Err:request failed"
        ELSE IF fn_in.response.tag = "Error" THEN Delivered = "Err:" \o fn_in.response.msg
        ELSE IF fn_in.response.tag # ty THEN Delivered = "Err:unexpected response"
        ELSE Delivered = "Ok"

\* a waiter was failed by an Error response, another by a response of the
\* wrong variant
Wit_C12 ==
    /\ fn_in # Nil
    /\ fn_in.waiter # None
    /\ fn_in.event = "Response"
    /\ fn_in.response.tag \notin {"Error", fn_in.waiter[1].ty}
    /\ Delivered = "Err:unexpected response"
    /\ \E c \in DOMAIN oneshot : oneshot[c] = "Err:Access denied"

\* C13: whenever the handler of an inbound request returned an error or
\* panicked, Error("Internal error") was sent to the requester and the
\* actor is still running.
Cex_C13 ==
    (fn_out # Nil /\ fn_out.kind \in {"Err", "Panic"}) =>
        /\ fn_out.sent = Some(ErrorRes("Internal error"))
        /\ actor = "running"

\* the request variants of the auth layer
AuthTags == {"Authenticate", "CreateUser", "CreateToken", "GrantAccess",
             "ListUsers", "ListTokens", "RevokeToken", "RevokeUser"}

\* C14: every inbound request of an auth-layer variant is answered with the
\* Error response "<variant> not implemented" and leaves State as it was.
Cex_C14 ==
    (fn_in # Nil /\ fn_in.req.tag \in AuthTags) =>
        /\ fn_out.sent = Some(ErrorRes(fn_in.req.tag \o " not implemented"))
        /\ state = fn_in.st

\* the last request of SpecIo was a ReadFile answered with a FileChunk
ReadAnswered ==
    fn_in # Nil /\ fn_in.req.tag = "ReadFile" /\ fn_out.res.tag = "FileChunk"
Chunk == fn_out.res.chunk
\* the length of the file the last request named (its paths are canonical)
FileLen == Len(fs[fn_in.req.path].data)

Thm_C16 ==
    ReadAnswered =>
        /\ Chunk.offset = fn_in.req.offset
        /\ Chunk.eof <=> (fn_in.req.offset + Len(Chunk.data) >= FileLen)
        /\ fn_in.req.offset >= FileLen => (Chunk.data = <<>> /\ Chunk.eof)

\* a read at the very end of a non-empty file: no data, eof, offset echoed
Wit_C16 ==
    /\ ReadAnswered
    /\ FileLen > 0
    /\ fn_in.req.offset = FileLen
    /\ Chunk = [offset |-> FileLen, data |-> <<>>, eof |-> TRUE]

\* the last request of SpecIo was a WriteFile whose offset + |data| does not
\* fit a u64
WriteOverflows ==
    /\ fn_in # Nil
    /\ fn_in.req.tag = "WriteFile"
    /\ fn_in.req.offset + Len(fn_in.req.data) > U64_MAX

\* C17: a WriteFile whose offset + |data| exceeds u64::MAX is
\* answered with an Error response that reports the invalid length.
Cex_C17 ==
    WriteOverflows =>
        /\ fn_out.res.tag = "Error"
        /\ fn_out.res.msg \in {"length overflow", "InvalidArgument"}

\* the last request was ReadFile(path, 0, len(data)) and the request before
\* it an acknowledged WriteFile(path, 0, data)
RoundTrip ==
    /\ ReadAnswered
    /\ fn_in.wrote # Nil
    /\ fn_in.wrote.req.path = fn_in.req.path
    /\ fn_in.wrote.req.offset = 0
    /\ fn_in.req.offset = 0
    /\ fn_in.req.length = Some(Len(fn_in.wrote.req.data))
Written == fn_in.wrote.req.data

\* C18: the read of a round trip returns the written data exactly,
\* with eof true exactly when len(data) equals the file size.
Cex_C18 ==
    RoundTrip =>
        /\ Chunk.data = Written
        /\ Chunk.eof <=> (Len(Written) = FileLen)

\* the listing the last call of collect_dir_entries returned
Listing == fn_out.entries
DirCalled == fn_in # Nil /\ fn_in.path = DirListed /\ fn_out.ok

\* C19: in every listing collect_dir_entries returns, no file comes before a
\* directory, and two entries of the same class are in non-decreasing order
\* of their lower-cased names.
Thm_C19 ==
    DirCalled =>
        \A i, j \in DOMAIN Listing :
            i < j =>
                /\ Listing[j].is_dir => Listing[i].is_dir
                /\ Listing[i].is_dir = Listing[j].is_dir =>
                      NameRank(to_lowercase(Listing[i].name))
                          <= NameRank(to_lowercase(Listing[j].name))

\* a listing of the directory "s" and the files "a" and "B": the directory
\* first, then the files by lower-cased name ("B" is before "a" in byte order)
Wit_C19 ==
    /\ DirCalled
    /\ Len(Listing) = 3
    /\ << Listing[1].name, Listing[2].name, Listing[3].name >> = << "s", "a", "B" >>
    /\ << Listing[1].is_dir, Listing[2].is_dir, Listing[3].is_dir >> = << TRUE, FALSE, FALSE >>

\* the last request of SpecFs was a ListDir for a plain path (no "..", no
\* symbolic link on the way) that no rule grants to the requester
ListDirOutside ==
    /\ fn_in # Nil
    /\ fn_in.req.tag = "ListDir"
    /\ \A i \in DOMAIN fn_in.req.path :
          /\ fn_in.req.path[i] # ".."
          /\ SubSeq(fn_in.req.path, 1, i) \in DOMAIN fn_in.fs
                => fn_in.fs[SubSeq(fn_in.req.path, 1, i)].type # "link"
    /\ ~has_fs_access(fn_in.st, fn_in.peer, fn_in.req.path, READ_ACCESS)

\* the same filesystem with the existence of path p flipped: p and what is
\* below it removed when p exists, p created as a directory when it does not
ExistenceFlipped(f, p) ==
    IF p \in DOMAIN f
    THEN [q \in {q \in DOMAIN f : ~(Len(q) >= Len(p) /\ SubSeq(q, 1, Len(p)) = p)}
             |-> f[q]]
    ELSE [q \in {SubSeq(p, 1, i) : i \in DOMAIN p} \ DOMAIN f |-> Dir] @@ f

\* C20: a ListDir from a peer without access to the path is answered
\* Error("Access denied"), and the run that differs only in the existence of
\* the path gives the requester the same response.
Cex_C20 ==
    ListDirOutside =>
        /\ fn_out.res = ErrorRes("Access denied")
        /\ response_for(handle_puppy_peer_req(fn_in.st,
                            ExistenceFlipped(fn_in.fs, fn_in.req.path),
                            fn_in.peer, fn_in.req)) = fn_out.res

\* the last request of SpecFs was a ReadFile whose path canonicalizes to a
\* directory the requester may read
ReadOfDirectory ==
    /\ fn_in # Nil
    /\ fn_in.req.tag = "ReadFile"
    /\ canonicalize(fn_in.fs, fn_in.req.path).ok
    /\ fn_in.fs[canonicalize(fn_in.fs, fn_in.req.path).path].type = "dir"
    /\ can_access(fn_in.st, fn_in.peer, canonicalize(fn_in.fs, fn_in.req.path).path,
                  READ_ACCESS)

\* C21: an inbound ReadFile whose canonical path is a directory is answered
\* with Error("path is a directory").
Cex_C21 == ReadOfDirectory => fn_out.res = ErrorRes("path is a directory")

\* a & b for bytes, bit by bit
BitAnd8(a, b) ==
    LET weight(k) == 2 ^ k
        bit(k) == IF (a \div weight(k)) % 2 = 1 /\ (b \div weight(k)) % 2 = 1
                  THEN weight(k) ELSE 0
    IN bit(0) + bit(1) + bit(2) + bit(3) + bit(4) + bit(5) + bit(6) + bit(7)

\* C22: for every rule byte and every access byte, FolderRule::allows(access)
\* equals (rule_flags & access) == access.
Cex_C22 ==
    fn_out # Nil =>
        (fn_out.allowed <=> BitAnd8(fn_in.flags, fn_in.access) = fn_in.access)

\* the last two calls of SpecShare were share_read_only_folder of one path
SharedTwice ==
    LET n == Len(hist.calls) IN
    /\ n >= 2
    /\ hist.calls[n].kind = "ro"
    /\ hist.calls[n - 1] = hist.calls[n]
\* the State the first of the two calls left
AfterOnce == hist.after[Len(hist.calls) - 1]
\* the canonical paths and access bytes the decisions are compared on
DecisionPaths == {q \in DOMAIN fs : TRUE} \cup {<< "pub", "new" >>, << "nope" >>}
DecisionFlags == 0..(FLAG_READ + FLAG_WRITE + FLAG_EXECUTE + FLAG_SEARCH)

\* C23: after share_read_only_folder(p) was called twice in a row,
\* has_fs_access answers every (src, path, flags) as it did after the first
\* of the two calls.
Thm_C23 ==
    SharedTwice =>
        \A src \in Peers, path \in DecisionPaths, flags \in DecisionFlags :
            has_fs_access(state, src, path, flags)
                = has_fs_access(AfterOnce, src, path, flags)

\* /pub shared read-only twice: the rule is stored twice and p1 may read
\* /pub/a but not write it
Wit_C23 ==
    /\ SharedTwice
    /\ hist.calls[1].path = << "pub" >>
    /\ Len(state.shared_folders) = 2
    /\ state.shared_folders[1] = state.shared_folders[2]
    /\ has_fs_access(state, "p1", << "pub", "a" >>, READ_ACCESS)
    /\ ~has_fs_access(state, "p1", << "pub", "a" >>, WRITE_ACCESS)

\* the node was started twice in a row with the same key path, which was
\* missing at the first start
RestartedOnMissingKey ==
    LET n == Len(hist) IN
    /\ n >= 2
    /\ hist[n].call.path = hist[n - 1].call.path
    /\ ~hist[n - 1].call.existed

\* C24: when p is missing, also when its parent directory is missing,
\* load_or_generate(p) returns a key it has persisted, and the next call with
\* the same p returns a key with the same public half, so that the PeerId of
\* the node is the same after the restart.
Cex_C24 ==
    RestartedOnMissingKey =>
        LET n == Len(hist) IN
        /\ hist[n - 1].result.loaded # None
        /\ hist[n].result.loaded = hist[n - 1].result.loaded
        /\ hist[n].result.peer_id = hist[n - 1].result.peer_id

\* every worker of SpecWg has run all its add/done pairs to the end
AllDone ==
    \A w \in Workers : cur.workers[w].pc = "idle" /\ cur.workers[w].rounds = MaxRounds

\* C25: once every add has been matched by a done and the counter stays at
\* zero, the task awaiting wait() has completed or has been woken and will
\* be polled again; it is never left parked without a wakeup.
Cex_C25 ==
    (AllDone /\ state.counter = 0) =>
        ~(cur.waiter.pc = "parked" /\ ~cur.waiter.woken)

\* q continues p: nothing was taken from the front of the queue
IsQueuePrefix(p, q) == Len(p) <= Len(q) /\ SubSeq(q, 1, Len(p)) = p

\* C26: while a handler is suspended and the task goes on, no step takes a
\* command from the queue or a swarm event: the queue only grows at its end,
\* no inbound request, response or outbound failure is taken, no handler is
\* started, the waiter table keeps its entries, and the suspended handler is
\* either still the one suspended or has run to its end.
Thm_C26 ==
    [][(cur # Nil /\ actor' = "running") =>
          /\ IsQueuePrefix(rx, rx')
          /\ Len(inbound') = Len(inbound)
          /\ hist'.events = hist.events
          /\ hist'.started = hist.started
          /\ pending_requests' = pending_requests
          /\ next_request_id' = next_request_id
          /\ cur' \in {cur, Nil}]_vars

\* a handler is suspended while a command waits in the queue and a waiter is
\* in the table, its response not yet taken
Wit_C26 ==
    /\ actor = "running"
    /\ cur # Nil
    /\ rx # <<>>
    /\ pending_requests # <<>>

\* the actor is at a suspension point: in the select loop or at an await
ActorSuspended == cur = Nil \/ next_op(cur) = "await"

\* C27: whenever the actor is at an await of a handler or back in the select
\* loop it does not hold the State mutex, and a facade method that awaits
\* its one-shot does not hold it either.
Thm_C27 ==
    /\ ActorSuspended => state.locked_by # Some("actor")
    /\ hist.caller = "awaiting" => state.locked_by # Some("caller")

\* the self-targeted ReadFile command is at its await of read_file, after it
\* locked the State to compare me with the target, while another thread
\* holds the mutex
Wit_C27 ==
    /\ cur # Nil
    /\ cur.kind = "cmd ReadFile self"
    /\ cur.pc = 3
    /\ next_op(cur) = "await"
    /\ hist.caller = "awaiting"
    /\ state.locked_by = Some("user")

\* C28: when a command handler inserts its waiter under an id that already
\* has one, the earlier waiter's caller receives the error saying it was
\* replaced, and the table holds the new waiter under that id.
Cex_C28 ==
    (fn_in # Nil /\ fn_in.prev # None) =>
        /\ oneshot[fn_in.prev[1].call] = "Err:replaced"
        /\ pending_requests[fn_in.request_id]
              = Pending(fn_in.call, decoder_of(fn_in.kind))

\* the step in which a caller drops the future of its call
DropFutureStep == fn_in'.event = "DropFuture" /\ fn_in' # fn_in
\* the step in which the Response or OutboundFailure of an id is handled
TerminalEventStep == hist'.events > hist.events

\* C29: a caller dropping its future changes nothing in the actor: the
\* waiter table is as before. The Response or OutboundFailure of an id takes
\* the id out of the table, also when the caller is gone; the send on the
\* closed one-shot changes no one-shot and the actor keeps running.
Thm_C29 ==
    /\ [][DropFutureStep => (pending_requests' = pending_requests /\ actor' = actor)]_vars
    /\ [][TerminalEventStep =>
            /\ fn_in'.request_id \notin DOMAIN pending_requests'
            /\ DOMAIN pending_requests' = DOMAIN pending_requests \ {fn_in'.request_id}
            /\ actor' = "running"
            /\ \A c \in DOMAIN oneshot :
                  oneshot[c] = "receiver dropped" => oneshot' = oneshot
                     \/ fn_in'.waiter = None \/ fn_in'.waiter[1].call # c]_vars
    /\ [](\A c \in DOMAIN oneshot :
            (oneshot[c] = "receiver dropped" /\ hist.events = 0) => c \in DOMAIN pending_requests)

\* the response of a call whose caller has gone was handled: the waiter was
\* found and removed, the one-shot still shows the dropped receiver
Wit_C29 ==
    /\ fn_in # Nil
    /\ fn_in.event = "Response"
    /\ fn_in.waiter # None
    /\ oneshot[fn_in.waiter[1].call] = "receiver dropped"
    /\ fn_in.request_id \notin DOMAIN pending_requests
    /\ actor = "running"

\* the rows of state.connections
ConnRows == {state.connections[i] : i \in DOMAIN state.connections}
\* the step of a swarm event or command other than the two connection events
OtherStep ==
    /\ fn_in' # fn_in
    /\ fn_in'.event \notin {"ConnectionEstablished", "ConnectionClosed"}

DiscoveredRows == {state.discovered_peers[i] : i \in DOMAIN state.discovered_peers}

\* C31: every (peer, address) pair that discovery announced and has not
\* expired has its entry in discovered_peers, so a peer announced at two
\* addresses is listed at both and stays listed at the second when the first
\* expires.
Cex_C31 == \A a \in hist.announced : a \in DiscoveredRows

\* C32: discovered_peers never holds two entries with the same
\* (peer_id, multiaddr), whatever Discovered and Expired events came.
Thm_C32 ==
    \A i, j \in DOMAIN state.discovered_peers :
       (/\ state.discovered_peers[i].peer_id = state.discovered_peers[j].peer_id
        /\ state.discovered_peers[i].multiaddr = state.discovered_peers[j].multiaddr)
          => i = j

\* a pair that was already listed was announced again, and is listed once
Wit_C32 ==
    /\ fn_in # Nil
    /\ fn_in.event = "Discovered"
    /\ fn_out.listed_before
    /\ Cardinality({i \in DOMAIN state.discovered_peers :
                       /\ state.discovered_peers[i].peer_id = fn_in.peer_id
                       /\ state.discovered_peers[i].multiaddr = fn_in.multiaddr}) = 1

\* C33: a dial error, of a Connect command or of a discovered address,
\* leaves the actor running.
Cex_C33 == (fn_in # Nil /\ fn_in.dial = "Err") => actor = "running"

\* the requests whose handler takes the State mutex
StateReqs ==
    {"ListDir", "StatFile", "ReadFile", "WriteFile", "ListPermissions",
     "CreateUser", "CreateToken"}

\* C34: a request that needs State and is handled while the mutex is
\* poisoned is answered Error("State unavailable") and the actor keeps
\* running.
Cex_C34 ==
    (/\ fn_in # Nil
     /\ poisoned(fn_in.st)
     /\ fn_in.req.tag \in StateReqs)
       => /\ fn_out.sent = Some(ErrorRes("State unavailable"))
          /\ actor = "running"

\* the step that handles a WriteFile request in SpecIo
WriteStep == hist'.reqs > hist.reqs /\ fn_in'.req.tag = "WriteFile"

\* C35: a WriteFile rejected because offset + |data| does not fit a u64
\* leaves the filesystem as it was: no file is created, extended or written.
Cex_C35 ==
    [][(WriteStep /\ fn_in'.req.offset + Len(fn_in'.req.data) > U64_MAX) => fs' = fs]_vars

\* the content of the file at path p, nothing when there is no file
ContentOf(f, p) == IF p \in DOMAIN f THEN f[p].data ELSE <<>>

\* C36: an acknowledged WriteFile(path, offset, data) leaves the file with
\* length max(old length, offset + |data|), data at [offset, offset + |data|),
\* every other old byte as it was and zeros between the old end and offset;
\* the ack carries |data| and no other file changes.
Thm_C36 ==
    [][(WriteStep /\ fn_out'.res.tag = "WriteAck") =>
          LET req == fn_in'.req
              old == ContentOf(fs, req.path)
              new == ContentOf(fs', req.path)
              end == req.offset + Len(req.data)
          IN /\ req.path \in DOMAIN fs'
             /\ Len(new) = (IF Len(old) > end THEN Len(old) ELSE end)
             /\ Len(new) >= Len(old)
             /\ \A i \in 1..Len(new) :
                   new[i] = IF i > req.offset /\ i <= end THEN req.data[i - req.offset]
                            ELSE IF i <= Len(old) THEN old[i]
                            ELSE 0
             /\ fn_out'.res.ack.bytes_written = Len(req.data)
             /\ \A p \in DOMAIN fs : p # req.path => (p \in DOMAIN fs' /\ fs'[p] = fs[p])]_vars

\* a write at offset 1 of an empty or new file was acknowledged: the gap
\* before the data is a zero byte
Wit_C36 ==
    /\ hist.wrote # Nil
    /\ hist.wrote.old_len = 0
    /\ hist.wrote.req.offset = 1
    /\ hist.wrote.req.data = << 9, 8 >>
    /\ fs[hist.wrote.req.path].data = << 0, 9, 8 >>

\* the last request of SpecReq was a CreateUser for a name already in users
DuplicateUser ==
    /\ fn_in # Nil
    /\ fn_in.req.tag = "CreateUser"
    /\ \E i \in DOMAIN fn_in.st.users : fn_in.st.users[i].name = fn_in.req.username

\* C37: create_user with a name that is present fails and leaves users as it
\* was, and users never holds two entries with the same name.
Thm_C37 ==
    /\ DuplicateUser => (fn_out.kind = "Err" /\ state.users = fn_in.st.users)
    /\ \A i, j \in DOMAIN state.users :
          state.users[i].name = state.users[j].name => i = j

\* a second CreateUser for a name was handled while another user exists too
Wit_C37 ==
    /\ DuplicateUser
    /\ Len(state.users) = 2

\* the user record behind the session of a peer
SessionUser(peer) == state.users[state.sessions[peer].username]

\* the session of the peer was made from the user's password or from a token
\* that the user issued
SelfMade(peer) ==
    \/ state.sessions[peer].token_id = None
    \/ state.tokens[state.sessions[peer].token_id[1]].issued_by
          = state.sessions[peer].username

\* C38: the session a non-owner user made with the password or with a token
\* of the user's own issue allows no capability that the user's permission
\* set does not allow.
Cex_C38 ==
    \A peer \in DOMAIN state.sessions :
       (/\ state.sessions[peer].username \in DOMAIN state.users
        /\ OWNER_ROLE \notin SessionUser(peer).roles
        /\ SelfMade(peer))
          => \A capability \in Capabilities :
                permissions_allow(state.sessions[peer].permissions, capability)
                   => permissions_allow(SessionUser(peer).permissions, capability)

\* C39: every session is of a user that exists and, when made from a token,
\* of a token that exists and is not revoked; the secret of a token taken
\* out by RevokeToken or RevokeUser authenticates no peer.
Thm_C39 ==
    /\ \A peer \in DOMAIN state.sessions :
          /\ state.sessions[peer].username \in DOMAIN state.users
          /\ state.sessions[peer].token_id # None =>
                /\ state.sessions[peer].token_id[1] \in DOMAIN state.tokens
                /\ ~state.tokens[state.sessions[peer].token_id[1]].revoked
    /\ \A secret \in hist.revoked, peer \in AuthPeers :
          authenticate_token(state, hist.now, peer, secret).tag = "AuthFailure"

\* a token that a session was made from has been revoked, and the user it
\* belonged to is still there
Wit_C39 ==
    /\ fn_out # Nil
    /\ fn_out.tag = "TokenRevoked"
    /\ hist.revoked # {}
    /\ state.sessions # <<>>

\* C40: when there are users, one of them has the owner role.
Cex_C40 ==
    DOMAIN state.users # {} =>
       \E username \in DOMAIN state.users : OWNER_ROLE \in state.users[username].roles

====
